---------------------------- MODULE Spec2Model ----------------------------
(***************************************************************************)
(* Run analytics of the dbt observability dashboard.                       *)
(*                                                                         *)
(* The store (dbt_models, dbt_run_results, elementary_test_results,        *)
(* ROW_COUNT_LOG, dbt_invocations) is                                      *)
(* append-only and written by an external ingestion process; the service   *)
(* functions evaluate one SQL query each over a time-bounded slice of it.  *)
(* Each query is modelled by the relational operations it is made of       *)
(* (window filter, ROW_NUMBER ranking, window aggregates, PERCENTILE_CONT, *)
(* joins, ORDER BY / LIMIT / OFFSET).  Whatever SQL leaves unspecified     *)
(* (the order of rows that tie on the ORDER BY key) is a nondeterministic  *)
(* choice.  Timestamps are whole days (ticks of half a day in the daily    *)
(* trend, seconds in the run timeline), execution times whole seconds and  *)
(* averages exact fractions.  run_query keeps the frame of each query text *)
(* for CACHE_TTL seconds; the cache is modelled in SpecCache, and in the    *)
(* other specifications every call executes its query.  The script         *)
(* (streamlit_app.py and the pages) is modelled in SpecSession: one step   *)
(* per run of main, over st.session_state and the page left in the browser.*)
(***************************************************************************)
EXTENDS Integers, Sequences, FiniteSets, TLC

VARIABLES
    now,                      \* CURRENT_TIMESTAMP(), in days
    dbt_models,               \* the model catalog: a set of unique_ids
    dbt_run_results,          \* sequence of run records, in insertion order
    elementary_test_results,  \* sequence of test results, in insertion order
    row_count_log,            \* sequence of row-count observations (ROW_COUNT_LOG)
    dbt_invocations,          \* sequence of invocation records
    cache,                    \* st.cache_data of run_query: query |-> entry
    session_state,            \* st.session_state: key |-> value
    browser,                  \* the page the last script run left in the browser
    ret                       \* what the last service call returned

vars == <<now, dbt_models, dbt_run_results, elementary_test_results,
          row_count_log, dbt_invocations, cache, session_state, browser, ret>>

tables == <<now, dbt_models, dbt_run_results, elementary_test_results,
            row_count_log, dbt_invocations>>

\* st.session_state and the page the last script run left in the browser.
ui == <<session_state, browser>>

store == <<tables, cache, ui>>

---------------------------------------------------------------------------
(* Bounds of the model *)

MaxAlertRows == 2   \* rows of the two fact tables together, failure queries
MaxTestRows == 3    \* rows of elementary_test_results, test queries
MaxRunRows == 2     \* rows of dbt_run_results, model summary
MaxSlowRows == 3    \* rows of dbt_run_results, slow classification
MaxLogRows == 3     \* rows of ROW_COUNT_LOG, growth summary
MaxTrendRows == 3   \* rows of dbt_run_results, daily trend
MaxTimelineRows == 3 \* rows of dbt_run_results, run timeline
MaxPageRows == 2    \* rows over all four tables, paged listings
MaxPages == 3       \* consecutive pages fetched from a listing
MaxCountRows == 3   \* rows of ROW_COUNT_LOG and dbt_invocations, totals
MaxFetchRows == 2   \* rows of ROW_COUNT_LOG and dbt_invocations, failing fetches
MaxEmptyRows == 2   \* rows over all four tables, empty windows
MaxCacheRows == 2   \* rows of the tables read through the cache
MaxSkipRows == 3    \* rows of dbt_run_results, skipped runs
MaxNow == 2         \* the clock runs over 0 .. MaxNow

---------------------------------------------------------------------------
(* Values *)

\* A nullable SQL value is <<>> (NULL) or <<v>>; a fraction is <<num, den>>.
NULL == <<>>

Min(a, b) == IF a <= b THEN a ELSE b

\* unique_ids are character sequences: a resource-type letter, then the name.
TestIds == { <<"t", "a">>, <<"t", "B">> }
ModelIds == { <<"m", "a">>, <<"m", "B">> }
SeedIds == { <<"s", "a">> }
RunIds == ModelIds \cup SeedIds

Searches == { <<>>, <<"b">> }

TestStatuses == {"pass", "warn", "fail", "error"}
RunStatuses == {"success", "fail", "error", "skipped"}

Days == {1, 2}             \* lookback windows offered to the calls
Limits == {1, 2}           \* LIMIT values offered to the calls
Offsets == {0, 1}          \* OFFSET values offered to the calls

\* dbt derives resource_type from the node; it is the unique_id's prefix.
ResourceType(id) == IF Head(id) = "m" THEN "model" ELSE "seed"
NameOf(id) == Tail(id)

\* SQL LOWER
LowerChar(c) == CASE c = "A" -> "a" [] c = "B" -> "b" [] OTHER -> c
Lower(s) == [i \in DOMAIN s |-> LowerChar(s[i])]

\* x LIKE '%pat%'
Contains(s, pat) ==
    \E k \in 0 .. (Len(s) - Len(pat)) :
        \A i \in 1 .. Len(pat) : s[k + i] = pat[i]

---------------------------------------------------------------------------
(* Relational helpers *)

\* WHERE x >= DATEADD(day, -days, CURRENT_TIMESTAMP())
InWindow(ts, days) == ts >= now - days

\* The optional search filter: f"AND LOWER(id) LIKE LOWER('%{search}%')" if search else ""
SearchFilter(id, search) ==
    search = <<>> \/ Contains(Lower(id), Lower(search))

\* RowNumberOne with the ranking reversed (ORDER BY ts ASC).
RowNumberOneAsc(S, key, ts) ==
    LET keys == {key[i] : i \in S}
    IN  {f \in [keys -> S] :
            \A k \in keys :
                /\ key[f[k]] = k
                /\ \A j \in S : key[j] = k => ts[j] >= ts[f[k]]}

\* ROW_NUMBER() OVER (PARTITION BY key ORDER BY ts DESC) = 1, over the rows S
\* (indices of a table whose partition key and timestamp columns are key and
\* ts): every way of choosing, per partition, one row with the greatest
\* timestamp.  Rows that tie on the timestamp are ranked in an order SQL does
\* not define.
RowNumberOne(S, key, ts) ==
    LET keys == {key[i] : i \in S}
    IN  {f \in [keys -> S] :
            \A k \in keys :
                /\ key[f[k]] = k
                /\ \A j \in S : key[j] = k => ts[j] <= ts[f[k]]}

\* ORDER BY: the sequences that list the set S once each and never put a row
\* after one it sorts strictly before (before is that set of pairs).
OrderBy(S, before) ==
    LET n == Cardinality(S)
    IN  {s \in [1 .. n -> S] :
            /\ \A i, j \in 1 .. n : i # j => s[i] # s[j]
            /\ \A i, j \in 1 .. n : i < j => <<s[j], s[i]>> \notin before}

\* LIMIT limit OFFSET offset
LimitOffset(s, limit, offset) ==
    SubSeq(s, offset + 1, Min(Len(s), offset + limit))

IsFailure(status) == status \in {"fail", "error"}

---------------------------------------------------------------------------
(* services/alerts_service.py, services/metrics_service.py: current failures *)

\* TestSlice with the warn results filtered out.
TestSliceWithoutWarn(days, search) ==
    {i \in DOMAIN elementary_test_results :
        /\ InWindow(elementary_test_results[i].detected_at, days)
        /\ SearchFilter(elementary_test_results[i].test_unique_id, search)
        /\ elementary_test_results[i].status # "warn"}

\* CTE ranked of get_current_test_failures, before ranking.
TestSlice(days, search) ==
    {i \in DOMAIN elementary_test_results :
        /\ InWindow(elementary_test_results[i].detected_at, days)
        /\ SearchFilter(elementary_test_results[i].test_unique_id, search)}

TestRankOne(days, search) ==
    RowNumberOne(TestSlice(days, search),
                 [i \in DOMAIN elementary_test_results |->
                     elementary_test_results[i].test_unique_id],
                 [i \in DOMAIN elementary_test_results |->
                     elementary_test_results[i].detected_at])

\* ModelSlice with the skipped runs filtered out.
ModelSliceWithoutSkipped(days, search) ==
    {i \in DOMAIN dbt_run_results :
        /\ InWindow(dbt_run_results[i].generated_at, days)
        /\ dbt_run_results[i].resource_type = "model"
        /\ SearchFilter(dbt_run_results[i].unique_id, search)
        /\ dbt_run_results[i].status # "skipped"}

\* CTE ranked of get_current_model_failures, before ranking.
ModelSlice(days, search) ==
    {i \in DOMAIN dbt_run_results :
        /\ InWindow(dbt_run_results[i].generated_at, days)
        /\ dbt_run_results[i].resource_type = "model"
        /\ SearchFilter(dbt_run_results[i].unique_id, search)}

ModelRankOne(days, search) ==
    RowNumberOne(ModelSlice(days, search),
                 [i \in DOMAIN dbt_run_results |-> dbt_run_results[i].unique_id],
                 [i \in DOMAIN dbt_run_results |-> dbt_run_results[i].generated_at])

\* An output row of the failure queries; unique_id is the id column, whatever
\* the query names it, and row is the position of the source record in its
\* table: it stands for the record's remaining columns.
FailureRow(type, id, status, at, i) ==
    [type |-> type, unique_id |-> id, status |-> status, at |-> at, row |-> i]

TestFailureRows(f) ==
    {FailureRow("test", k, elementary_test_results[f[k]].status,
                elementary_test_results[f[k]].detected_at, f[k]) :
        k \in {x \in DOMAIN f : IsFailure(elementary_test_results[f[x]].status)}}

ModelFailureRows(f) ==
    {FailureRow("model", k, dbt_run_results[f[k]].status,
                dbt_run_results[f[k]].generated_at, f[k]) :
        k \in {x \in DOMAIN f : IsFailure(dbt_run_results[f[x]].status)}}

\* ORDER BY detected_at / generated_at / failed_at DESC
LaterFirst(S) == {p \in S \X S : p[1].at > p[2].at}

\* The data frames get_current_test_failures may return.  The LEFT JOIN to
\* dbt_tests is on its key and only adds display columns.
get_current_test_failures(days, search) ==
    UNION {OrderBy(TestFailureRows(f), LaterFirst(TestFailureRows(f))) : f \in TestRankOne(days, search)}

get_current_model_failures(days, search) ==
    UNION {OrderBy(ModelFailureRows(f), LaterFirst(ModelFailureRows(f))) : f \in ModelRankOne(days, search)}

\* UNION ALL of the two rankings, ORDER BY failed_at DESC LIMIT limit.
get_top_failures(limit, days) ==
    UNION {
        LET rows == TestFailureRows(p[1]) \cup ModelFailureRows(p[2])
        IN  {LimitOffset(s, limit, 0) : s \in OrderBy(rows, LaterFirst(rows))} :
        p \in TestRankOne(days, <<>>) \X ModelRankOne(days, <<>>)}

---------------------------------------------------------------------------
(* The store: written by the ingestion process, read by the queries *)

ExecTimes == {NULL, <<20>>, <<60>>, <<100>>}     \* execution_time, seconds

\* config.py: declared, and read by no query.
SLOW_MODEL_MIN_SECONDS == 60

NoCall == [fn |-> "none"]

\* No query has been run yet.
EmptyCache == <<>>

\* Python None; a session value that may be None is held as <<v>>.
None == <<>>

\* st.session_state of a new session holds no key.
NoSession == [key \in {} |-> None]

\* Nothing has been rendered yet.
Blank ==
    [view |-> "blank", rerun |-> FALSE, buttons |-> {}, failed |-> FALSE,
     current_page |-> 0, total_pages |-> 1, page_size |-> 1, offset |-> 0]

Rows == Len(dbt_run_results) + Len(elementary_test_results)

\* The store is read at one instant by each query, so the model lets it
\* change only while no returned frame is held (ret = NoCall).

\* A test result arrives; its detected_at need not be the latest so far.
AppendTestResult(max) ==
    /\ ret = NoCall
    /\ Rows < max
    /\ \E id \in TestIds, status \in TestStatuses, ts \in 0 .. now :
          elementary_test_results' = Append(elementary_test_results,
              [test_unique_id |-> id, status |-> status, detected_at |-> ts])
    /\ UNCHANGED <<now, dbt_models, dbt_run_results, row_count_log,
                   dbt_invocations, cache, ui, ret>>

\* A run result arrives.
AppendRunResult(max, statuses, times, stamps) ==
    /\ ret = NoCall
    /\ Rows < max
    /\ \E id \in RunIds, status \in statuses, et \in times, ts \in stamps :
          dbt_run_results' = Append(dbt_run_results,
              [unique_id |-> id, resource_type |-> ResourceType(id),
               status |-> status, execution_time |-> et, generated_at |-> ts])
    /\ UNCHANGED <<now, dbt_models, elementary_test_results, row_count_log,
                   dbt_invocations, cache, ui, ret>>

\* A day passes.
Tick ==
    /\ ret = NoCall
    /\ now < MaxNow
    /\ now' = now + 1
    /\ UNCHANGED <<dbt_models, dbt_run_results, elementary_test_results,
                   row_count_log, dbt_invocations, cache, ui, ret>>

\* The script run that made the call ends and its data frame goes with it.
Rerun ==
    /\ ret # NoCall
    /\ ret' = NoCall
    /\ UNCHANGED store

---------------------------------------------------------------------------
(* Calls of the current-failure queries *)

CallCurrentTestFailures ==
    /\ ret = NoCall
    /\ \E days \in Days, search \in Searches :
          \E df \in get_current_test_failures(days, search) :
              ret' = [fn |-> "get_current_test_failures", days |-> days,
                      search |-> search, df |-> df]
    /\ UNCHANGED store

CallCurrentModelFailures ==
    /\ ret = NoCall
    /\ \E days \in Days, search \in Searches :
          \E df \in get_current_model_failures(days, search) :
              ret' = [fn |-> "get_current_model_failures", days |-> days,
                      search |-> search, df |-> df]
    /\ UNCHANGED store

CallTopFailures ==
    /\ ret = NoCall
    /\ \E limit \in Limits, days \in Days :
          \E df \in get_top_failures(limit, days) :
              ret' = [fn |-> "get_top_failures", days |-> days,
                      limit |-> limit, df |-> df]
    /\ UNCHANGED store

InitAlerts ==
    /\ now = 0
    /\ dbt_models = ModelIds
    /\ dbt_run_results = <<>>
    /\ elementary_test_results = <<>>
    /\ row_count_log = <<>>
    /\ dbt_invocations = <<>>
    /\ cache = EmptyCache
    /\ session_state = NoSession
    /\ browser = Blank
    /\ ret = NoCall

NextAlerts ==
    \/ AppendTestResult(MaxAlertRows)
    \/ AppendRunResult(MaxAlertRows, RunStatuses, {NULL}, 0 .. now)
    \/ Tick
    \/ CallCurrentTestFailures
    \/ CallCurrentModelFailures
    \/ CallTopFailures
    \/ Rerun

SpecAlerts == InitAlerts /\ [][NextAlerts]_vars

---------------------------------------------------------------------------
(* services/tests_service.py: test summary and flaky tests *)

\* ROUND(num / den, 3), in thousandths (half rounds away from zero).
Round3(num, den) == (2000 * num + den) \div (2 * den)

\* COUNT(*) / SUM(CASE WHEN status IN statuses ...) over the rows S of test id.
TestCount(S, id, statuses) ==
    Cardinality({i \in S : /\ elementary_test_results[i].test_unique_id = id
                           /\ elementary_test_results[i].status \in statuses})

\* FLAKY_TEST_THRESHOLD = 0.2, as the fraction 1/5.
FLAKY_TEST_THRESHOLD == <<1, 5>>

\* num / den >= FLAKY_TEST_THRESHOLD, compared as exact fractions.
AtLeastThreshold(num, den) ==
    num * FLAKY_TEST_THRESHOLD[2] >= FLAKY_TEST_THRESHOLD[1] * den

\* SummaryIsFlaky without the minimum-sample guard.
SummaryIsFlakyUnguarded(pass_count, total_runs) ==
    AtLeastThreshold(total_runs - pass_count, total_runs)

\* SummaryIsFlaky that takes a test that never passed for broken, not flaky.
SummaryIsFlakyIntermittent(pass_count, total_runs) ==
    /\ AtLeastThreshold(total_runs - pass_count, total_runs)
    /\ total_runs >= 3
    /\ pass_count > 0

\* The CASE expression is_flaky of get_tests_summary:
\* (1 - pass_count / total_runs) >= FLAKY_TEST_THRESHOLD AND total_runs >= 3.
SummaryIsFlaky(pass_count, total_runs) ==
    /\ AtLeastThreshold(total_runs - pass_count, total_runs)
    /\ total_runs >= 3

\* The rows WHERE rn = 1 of test_stats, under the ranking f.
TestSummaryRows(days, search, f) ==
    LET S == TestSlice(days, search)
    IN  {LET total == TestCount(S, k, TestStatuses)
             pass  == TestCount(S, k, {"pass"})
         IN  [test_unique_id |-> k,
              latest_status |-> elementary_test_results[f[k]].status,
              last_run |-> elementary_test_results[f[k]].detected_at,
              total_runs |-> total,
              pass_count |-> pass,
              pass_rate |-> Round3(pass, total),
              is_flaky |-> SummaryIsFlaky(pass, total),
              row |-> f[k]] : k \in DOMAIN f}

\* ORDER BY pass_count / total_runs ASC NULLS LAST, total_runs DESC
LowestPassRateFirst(S) ==
    {p \in S \X S :
        \/ p[1].pass_count * p[2].total_runs < p[2].pass_count * p[1].total_runs
        \/ /\ p[1].pass_count * p[2].total_runs = p[2].pass_count * p[1].total_runs
           /\ p[1].total_runs > p[2].total_runs}

get_tests_summary(days, search, limit, offset) ==
    UNION {
        LET rows == TestSummaryRows(days, search, f)
        IN  {LimitOffset(s, limit, offset) : s \in OrderBy(rows, LowestPassRateFirst(rows))} :
        f \in TestRankOne(days, search)}

\* WHERE fail_count / total_runs >= FLAKY_TEST_THRESHOLD
FlakyRate(fail_count, total_runs) == AtLeastThreshold(fail_count, total_runs)

\* GROUP BY test ... HAVING total_runs >= 3, then the WHERE of the outer query.
FlakyRows(days) ==
    LET S == TestSlice(days, <<>>)
        ids == {elementary_test_results[i].test_unique_id : i \in S}
        stats == {[test_unique_id |-> k,
                   total_runs |-> TestCount(S, k, TestStatuses),
                   pass_count |-> TestCount(S, k, {"pass"}),
                   fail_count |-> TestCount(S, k, {"fail", "error"}),
                   failure_rate |-> Round3(TestCount(S, k, {"fail", "error"}),
                                           TestCount(S, k, TestStatuses))] : k \in ids}
    IN  {r \in stats : r.total_runs >= 3 /\ FlakyRate(r.fail_count, r.total_runs)}

\* ORDER BY failure_rate DESC, total_runs DESC (failure_rate is the rounded column)
HighestFailureRateFirst(S) ==
    {p \in S \X S :
        \/ p[1].failure_rate > p[2].failure_rate
        \/ /\ p[1].failure_rate = p[2].failure_rate
           /\ p[1].total_runs > p[2].total_runs}

get_flaky_tests(days, limit) ==
    {LimitOffset(s, limit, 0) :
        s \in OrderBy(FlakyRows(days), HighestFailureRateFirst(FlakyRows(days)))}

CallTestsSummary ==
    /\ ret = NoCall
    /\ \E days \in Days, search \in Searches, limit \in Limits, offset \in Offsets :
          \E df \in get_tests_summary(days, search, limit, offset) :
              ret' = [fn |-> "get_tests_summary", days |-> days, search |-> search,
                      limit |-> limit, offset |-> offset, df |-> df]
    /\ UNCHANGED store

CallFlakyTests ==
    /\ ret = NoCall
    /\ \E days \in Days, limit \in Limits :
          \E df \in get_flaky_tests(days, limit) :
              ret' = [fn |-> "get_flaky_tests", days |-> days, limit |-> limit, df |-> df]
    /\ UNCHANGED store

InitTests == InitAlerts

NextTests ==
    \/ AppendTestResult(MaxTestRows)
    \/ Tick
    \/ CallTestsSummary
    \/ CallFlakyTests
    \/ Rerun

SpecTests == InitTests /\ [][NextTests]_vars

---------------------------------------------------------------------------
(* services/models_service.py: model summary *)

\* Fractions <<num, den>> with den > 0.
FracGt(x, y) == x[1] * y[2] > y[1] * x[2]

RECURSIVE SumExecutionTime(_)
SumExecutionTime(S) ==
    IF S = {} THEN 0
    ELSE LET i == CHOOSE j \in S : TRUE
         IN  dbt_run_results[i].execution_time[1] + SumExecutionTime(S \ {i})

\* AvgExecutionTime over the successful runs only.
AvgSuccessfulExecutionTime(S, id) ==
    LET timed == {i \in S : /\ dbt_run_results[i].unique_id = id
                            /\ dbt_run_results[i].status = "success"
                            /\ dbt_run_results[i].execution_time # NULL}
    IN  IF timed = {} THEN NULL
        ELSE <<SumExecutionTime(timed), Cardinality(timed)>>

\* AVG(execution_time) OVER (PARTITION BY unique_id), over the rows S: the
\* mean of the non-NULL values, NULL when there is none.
AvgExecutionTime(S, id) ==
    LET timed == {i \in S : /\ dbt_run_results[i].unique_id = id
                            /\ dbt_run_results[i].execution_time # NULL}
    IN  IF timed = {} THEN NULL
        ELSE <<SumExecutionTime(timed), Cardinality(timed)>>

\* COUNT(*) OVER (PARTITION BY unique_id)
RunCount(S, id) == Cardinality({i \in S : dbt_run_results[i].unique_id = id})

\* PERCENTILE_DISC(0.9) in the place of PERCENTILE_CONT(0.9): the order
\* statistic at position ceil(0.9 * n), no interpolation.
PercentileDisc90(avgs) ==
    LET ids == {k \in DOMAIN avgs : avgs[k] # NULL}
        n == Cardinality(ids)
        sorted == CHOOSE s \in [1 .. n -> ids] :
                      /\ \A i, j \in 1 .. n : i # j => s[i] # s[j]
                      /\ \A i, j \in 1 .. n : i < j => ~FracGt(avgs[s[i]], avgs[s[j]])
    IN  IF n = 0 THEN NULL ELSE avgs[sorted[(9 * n + 9) \div 10]]

\* PERCENTILE_CONT(0.9) WITHIN GROUP (ORDER BY avg) over the non-NULL values
\* of avgs (a function from ids to fractions or NULL): linear interpolation
\* between the order statistics around position 1 + 0.9 * (n - 1); NULL when
\* n = 0.
PercentileCont90(avgs) ==
    LET ids == {k \in DOMAIN avgs : avgs[k] # NULL}
        n == Cardinality(ids)
        sorted == CHOOSE s \in [1 .. n -> ids] :
                      /\ \A i, j \in 1 .. n : i # j => s[i] # s[j]
                      /\ \A i, j \in 1 .. n : i < j => ~FracGt(avgs[s[i]], avgs[s[j]])
        lo == 1 + (9 * (n - 1)) \div 10
        k == (9 * (n - 1)) % 10
        hi == IF k = 0 THEN lo ELSE lo + 1
        a == avgs[sorted[lo]]
        b == avgs[sorted[hi]]
    IN  IF n = 0 THEN NULL
        ELSE <<(10 - k) * a[1] * b[2] + k * b[1] * a[2], 10 * a[2] * b[2]>>

\* The per-model averages both percentiles CTEs range over: every model
\* unique_id with a run in the window, whatever the search argument.
ModelAverages(days) ==
    LET S == ModelSlice(days, <<>>)
    IN  [k \in {dbt_run_results[i].unique_id : i \in S} |-> AvgExecutionTime(S, k)]

\* COALESCE(PERCENTILE_CONT(...), 999999)
P90ShowAll(days) ==
    IF PercentileCont90(ModelAverages(days)) = NULL THEN <<999999, 1>>
    ELSE PercentileCont90(ModelAverages(days))

P90Default(days) == PercentileCont90(ModelAverages(days))

\* IsSlow with >= in the place of >.
IsSlowOrEqual(avg, p90) == avg # NULL /\ p90 # NULL /\ ~FracGt(p90, avg)

\* CASE WHEN avg_execution_time > p90 THEN TRUE ELSE FALSE END: a comparison
\* with NULL is not true.
IsSlow(avg, p90) == avg # NULL /\ p90 # NULL /\ FracGt(avg, p90)

\* Binary collation of names.
CharCode(c) == CASE c = "B" -> 66 [] c = "a" -> 97 [] OTHER -> 0

RECURSIVE NameLess(_, _)
NameLess(x, y) ==
    IF y = <<>> THEN FALSE
    ELSE IF x = <<>> THEN TRUE
    ELSE IF CharCode(Head(x)) # CharCode(Head(y))
         THEN CharCode(Head(x)) < CharCode(Head(y))
         ELSE NameLess(Tail(x), Tail(y))

\* ShowAllRows with an inner join in the place of the LEFT JOIN.
ShowAllRowsInnerJoin(days, search, f) ==
    LET S == ModelSlice(days, <<>>)
    IN  {[unique_id |-> m, name |-> NameOf(m),
          latest_status |-> dbt_run_results[f[m]].status,
          last_run |-> <<dbt_run_results[f[m]].generated_at>>,
          avg_execution_time |-> AvgExecutionTime(S, m),
          run_count |-> RunCount(S, m),
          is_slow |-> IsSlow(AvgExecutionTime(S, m), P90ShowAll(days))] :
            m \in {x \in dbt_models : SearchFilter(x, search) /\ x \in DOMAIN f}}

\* The SELECT of the show_all branch: dbt_models LEFT JOIN latest_runs, under
\* the ranking f of run_stats.
ShowAllRows(days, search, f) ==
    LET S == ModelSlice(days, <<>>)
    IN  {IF m \in DOMAIN f
         THEN [unique_id |-> m, name |-> NameOf(m),
               latest_status |-> dbt_run_results[f[m]].status,
               last_run |-> <<dbt_run_results[f[m]].generated_at>>,
               avg_execution_time |-> AvgExecutionTime(S, m),
               run_count |-> RunCount(S, m),
               is_slow |-> IsSlow(AvgExecutionTime(S, m), P90ShowAll(days))]
         ELSE [unique_id |-> m, name |-> NameOf(m),
               latest_status |-> "no_runs",
               last_run |-> NULL,
               avg_execution_time |-> NULL,
               run_count |-> 0,
               is_slow |-> FALSE] :
            m \in {x \in dbt_models : SearchFilter(x, search)}}

\* IssueRows without the slow models.
IssueRowsFailedOnly(days, search, f) ==
    LET S == ModelSlice(days, search)
        rows == {[unique_id |-> k, name |-> NameOf(k),
                  latest_status |-> dbt_run_results[f[k]].status,
                  last_run |-> <<dbt_run_results[f[k]].generated_at>>,
                  avg_execution_time |-> AvgExecutionTime(S, k),
                  run_count |-> RunCount(S, k),
                  is_slow |-> IsSlow(AvgExecutionTime(S, k), P90Default(days))] :
                    k \in DOMAIN f}
    IN  {r \in rows : IsFailure(r.latest_status)}

\* The SELECT of the default branch: the rows rn = 1 of model_stats that
\* failed or are above p90, under the ranking f of model_stats.
IssueRows(days, search, f) ==
    LET S == ModelSlice(days, search)
        rows == {[unique_id |-> k, name |-> NameOf(k),
                  latest_status |-> dbt_run_results[f[k]].status,
                  last_run |-> <<dbt_run_results[f[k]].generated_at>>,
                  avg_execution_time |-> AvgExecutionTime(S, k),
                  run_count |-> RunCount(S, k),
                  is_slow |-> IsSlow(AvgExecutionTime(S, k), P90Default(days))] :
                    k \in DOMAIN f}
    IN  {r \in rows : IsFailure(r.latest_status) \/ r.is_slow}

\* ORDER BY CASE WHEN status IN ('fail', 'error') THEN 0 ELSE 1 END,
\*          avg_execution_time DESC NULLS LAST
FailedThenSlowestFirst(a, b) ==
    \/ IsFailure(a.latest_status) /\ ~IsFailure(b.latest_status)
    \/ /\ IsFailure(a.latest_status) = IsFailure(b.latest_status)
       /\ a.avg_execution_time # NULL
       /\ \/ b.avg_execution_time = NULL
          \/ FracGt(a.avg_execution_time, b.avg_execution_time)

\* The two rows tie on the keys of FailedThenSlowestFirst.
SameRank(a, b) == ~FailedThenSlowestFirst(a, b) /\ ~FailedThenSlowestFirst(b, a)

get_models_summary(days, search, show_all, limit, offset) ==
    IF show_all
    THEN UNION {
            LET rows == ShowAllRows(days, search, f)
                before == {p \in rows \X rows :
                              \/ FailedThenSlowestFirst(p[1], p[2])
                              \/ /\ SameRank(p[1], p[2])
                                 /\ NameLess(p[1].name, p[2].name)}
            IN  {LimitOffset(s, limit, offset) : s \in OrderBy(rows, before)} :
            f \in ModelRankOne(days, <<>>)}
    ELSE UNION {
            LET rows == IssueRows(days, search, f)
                before == {p \in rows \X rows : FailedThenSlowestFirst(p[1], p[2])}
            IN  {LimitOffset(s, limit, offset) : s \in OrderBy(rows, before)} :
            f \in ModelRankOne(days, search)}

CallModelsSummary(limits, offsets) ==
    /\ ret = NoCall
    /\ \E days \in Days, search \in Searches, show_all \in BOOLEAN,
          limit \in limits, offset \in offsets :
          \E df \in get_models_summary(days, search, show_all, limit, offset) :
              ret' = [fn |-> "get_models_summary", days |-> days, search |-> search,
                      show_all |-> show_all, limit |-> limit, offset |-> offset,
                      df |-> df]
    /\ UNCHANGED store

\* The catalog may list models that never ran and miss models that did.
InitModels ==
    /\ now = 0
    /\ dbt_models \in SUBSET ModelIds
    /\ dbt_run_results = <<>>
    /\ elementary_test_results = <<>>
    /\ row_count_log = <<>>
    /\ dbt_invocations = <<>>
    /\ cache = EmptyCache
    /\ session_state = NoSession
    /\ browser = Blank
    /\ ret = NoCall

NextModels ==
    \/ AppendRunResult(MaxRunRows, RunStatuses, ExecTimes, 0 .. now)
    \/ Tick
    \/ CallModelsSummary(Limits, Offsets)
    \/ Rerun

SpecModels == InitModels /\ [][NextModels]_vars

\* The slow classification is explored over longer histories: three statuses,
\* the clock at MaxNow, records stamped either now or MaxNow days ago (inside
\* the longest window only), and the whole result requested.
InitSlow ==
    /\ now = MaxNow
    /\ dbt_models = ModelIds
    /\ dbt_run_results = <<>>
    /\ elementary_test_results = <<>>
    /\ row_count_log = <<>>
    /\ dbt_invocations = <<>>
    /\ cache = EmptyCache
    /\ session_state = NoSession
    /\ browser = Blank
    /\ ret = NoCall

NextSlow ==
    \/ AppendRunResult(MaxSlowRows, {"success", "fail", "skipped"}, ExecTimes, {0, now})
    \/ CallModelsSummary({2}, {0})
    \/ Rerun

SpecSlow == InitSlow /\ [][NextSlow]_vars

---------------------------------------------------------------------------
(* Claims on the current-failure queries (SpecAlerts) *)

Failing(status) == status = "fail" \/ status = "error"

\* The records of entity id with timestamp >= now - days, with their position
\* in the table.
Observed(id, days) ==
    IF id \in TestIds
    THEN {[pos |-> i, status |-> elementary_test_results[i].status,
           ts |-> elementary_test_results[i].detected_at, et |-> NULL] :
            i \in {j \in DOMAIN elementary_test_results :
                     /\ elementary_test_results[j].test_unique_id = id
                     /\ elementary_test_results[j].detected_at >= now - days}}
    ELSE {[pos |-> i, status |-> dbt_run_results[i].status,
           ts |-> dbt_run_results[i].generated_at,
           et |-> dbt_run_results[i].execution_time] :
            i \in {j \in DOMAIN dbt_run_results :
                     /\ dbt_run_results[j].unique_id = id
                     /\ dbt_run_results[j].generated_at >= now - days}}

\* Those of them that carry the maximum timestamp.
Newest(id, days) ==
    {o \in Observed(id, days) : \A p \in Observed(id, days) : p.ts <= o.ts}

Reported(id) == \E k \in DOMAIN ret.df : ret.df[k].unique_id = id

FailureQueries ==
    {"get_current_test_failures", "get_current_model_failures", "get_top_failures"}

\* The entities a failure query ranges over.
Subjects(fn) ==
    CASE fn = "get_current_test_failures" -> TestIds
      [] fn = "get_current_model_failures" -> ModelIds
      [] OTHER -> TestIds \cup ModelIds

\* The search argument of the last call selects id (get_top_failures has none).
Selected(id) ==
    \/ ret.fn = "get_top_failures"
    \/ ret.search = <<>>
    \/ Contains(Lower(id), Lower(ret.search))

\* The LIMIT of the last call cannot have cut a failing entity off.
Uncut ==
    \/ ret.fn # "get_top_failures"
    \/ Cardinality({id \in TestIds \cup ModelIds :
            \E o \in Newest(id, ret.days) : Failing(o.status)}) <= ret.limit

\* C1 as stated: an entity (among those the search argument selects) is
\* reported by a failure query if and only if its record with the maximum
\* timestamp in the window is fail or error (when several records tie on that
\* timestamp: reported only if one of them is a failure, and always if all of
\* them are).
C1_RecencyMaskingAsStated ==
    ret.fn \in FailureQueries =>
        \A id \in Subjects(ret.fn) :
            /\ Reported(id) =>
                  /\ Selected(id)
                  /\ \E o \in Newest(id, ret.days) : Failing(o.status)
            /\ ( /\ Newest(id, ret.days) # {}
                 /\ \A o \in Newest(id, ret.days) : Failing(o.status)
                 /\ Selected(id) )
               => Reported(id)

\* C1 (amended): the same, except that get_top_failures is only bound to
\* report every such entity when at most limit entities have a failing latest
\* record; no query ever reports an entity whose latest record is not a
\* failure, so a later success or pass always removes the entity.
C1_RecencyMasking ==
    ret.fn \in FailureQueries =>
        \A id \in Subjects(ret.fn) :
            /\ Reported(id) =>
                  /\ Selected(id)
                  /\ \E o \in Newest(id, ret.days) : Failing(o.status)
            /\ ( /\ Newest(id, ret.days) # {}
                 /\ \A o \in Newest(id, ret.days) : Failing(o.status)
                 /\ Selected(id)
                 /\ Uncut )
               => Reported(id)

\* Entity id has a failure in the window that a strictly later, last-inserted
\* success or pass supersedes.
Superseded(id, days) ==
    \E o, p \in Observed(id, days) :
        /\ Failing(o.status)
        /\ p.status \in {"pass", "success"}
        /\ o.ts < p.ts
        /\ Newest(id, days) = {p}
        /\ o.pos < p.pos

\* C1 witness: get_top_failures has answered for a store in which an entity's
\* failure is superseded by a later success, and has left that entity out.
C1_Witness ==
    /\ ret.fn = "get_top_failures"
    /\ \E id \in TestIds \cup ModelIds :
          /\ Superseded(id, ret.days)
          /\ ~Reported(id)

\* C2 as stated: when several in-window records of an entity tie on the
\* maximum timestamp, the one inserted last decides the classification.
C2_TiesResolvedByInsertionOrder ==
    ret.fn \in {"get_current_test_failures", "get_current_model_failures"} =>
        \A id \in Subjects(ret.fn) :
            (Selected(id) /\ Newest(id, ret.days) # {}) =>
                LET last == CHOOSE o \in Newest(id, ret.days) :
                                \A p \in Newest(id, ret.days) : p.pos <= o.pos
                IN  Reported(id) <=> Failing(last.status)

---------------------------------------------------------------------------
(* Claims on the flaky classification (SpecTests) *)

Failures(id, days) == {o \in Observed(id, days) : Failing(o.status)}

\* failure_rate >= 0.20 and total_runs >= 3, from the records in the window.
FlakyByFailureRate(id, days) ==
    /\ Cardinality(Observed(id, days)) >= 3
    /\ 5 * Cardinality(Failures(id, days)) >= Cardinality(Observed(id, days))

SummaryRows == {ret.df[k] : k \in DOMAIN ret.df}

Returned(id) == \E k \in DOMAIN ret.df : ret.df[k].test_unique_id = id

\* C8 as stated: get_tests_summary flags a test flaky, and get_flaky_tests
\* returns it (LIMIT aside), exactly when fail_count / total_runs >= 0.20 and
\* total_runs >= 3, fail_count counting the fail and error results in the window.
C8_FlakyUsesFailureRate ==
    /\ ret.fn = "get_tests_summary" =>
          \A r \in SummaryRows :
              r.is_flaky <=> FlakyByFailureRate(r.test_unique_id, ret.days)
    /\ ret.fn = "get_flaky_tests" =>
          \A id \in TestIds :
              /\ Returned(id) => FlakyByFailureRate(id, ret.days)
              /\ (FlakyByFailureRate(id, ret.days) /\ Len(ret.df) < ret.limit)
                    => Returned(id)

\* C9: a test with fewer than 3 results in the window is never flagged flaky
\* by get_tests_summary nor returned by get_flaky_tests.
C9_MinimumSampleGuard ==
    /\ ret.fn = "get_tests_summary" =>
          \A r \in SummaryRows :
              Cardinality(Observed(r.test_unique_id, ret.days)) < 3 => ~r.is_flaky
    /\ ret.fn = "get_flaky_tests" =>
          \A id \in TestIds :
              Returned(id) => Cardinality(Observed(id, ret.days)) >= 3

\* C9 witness: the summary lists, not flaky, a test whose one or two results
\* in the window all failed.
C9_Witness ==
    /\ ret.fn = "get_tests_summary"
    /\ \E r \in SummaryRows :
          /\ Failures(r.test_unique_id, ret.days) = Observed(r.test_unique_id, ret.days)
          /\ Cardinality(Observed(r.test_unique_id, ret.days)) \in {1, 2}
          /\ ~r.is_flaky

\* Every result of test id in the window is fail or error (failure rate 100%).
AlwaysFailing(id, days) ==
    /\ Observed(id, days) # {}
    /\ Failures(id, days) = Observed(id, days)

---------------------------------------------------------------------------
(* Claims on the model summary (SpecModels, SpecSlow) *)

ModelRows == {ret.df[k] : k \in DOMAIN ret.df}

C4_SlowFloor ==
    ret.fn = "get_models_summary" =>
        \A r \in ModelRows :
            r.is_slow =>
                r.avg_execution_time[1] >= SLOW_MODEL_MIN_SECONDS * r.avg_execution_time[2]

RECURSIVE SumOf(_)
SumOf(obs) ==
    IF obs = {} THEN 0
    ELSE LET o == CHOOSE x \in obs : TRUE IN o.et[1] + SumOf(obs \ {o})

\* The mean of the execution times of a set of records, NULL when it is empty.
MeanOf(obs) == IF obs = {} THEN NULL ELSE <<SumOf(obs), Cardinality(obs)>>

Timed(id, days) == {o \in Observed(id, days) : o.et # NULL}

TimedSuccessful(id, days) == {o \in Timed(id, days) : o.status = "success"}

\* Two nullable fractions denote the same value.
SameValue(x, y) ==
    IF x = NULL \/ y = NULL THEN x = y ELSE x[1] * y[2] = y[1] * x[2]

\* C5 as stated: the average a row carries is the mean over the model's
\* successful timed records in the window, and a model without such records
\* is never slow.
C5_AverageOverSuccessfulRuns ==
    ret.fn = "get_models_summary" =>
        \A r \in ModelRows :
            /\ SameValue(r.avg_execution_time,
                         MeanOf(TimedSuccessful(r.unique_id, ret.days)))
            /\ TimedSuccessful(r.unique_id, ret.days) = {} => ~r.is_slow

\* The p90 of the per-model means over all timed records in the window.
TimedP90(days) ==
    PercentileCont90([m \in {x \in ModelIds : Observed(x, days) # {}} |->
                        MeanOf(Timed(m, days))])

\* C5 (amended): the average a row carries, and the one the p90 is computed
\* from, is the mean over all the model's records in the window with a
\* non-null execution time, whatever their status; a model without such
\* records has no average and is never slow.
C5_AverageOverTimedRuns ==
    ret.fn = "get_models_summary" =>
        \A r \in ModelRows :
            /\ SameValue(r.avg_execution_time, MeanOf(Timed(r.unique_id, ret.days)))
            /\ Timed(r.unique_id, ret.days) = {} => ~r.is_slow
            /\ r.is_slow <=>
                  /\ Timed(r.unique_id, ret.days) # {}
                  /\ FracGt(MeanOf(Timed(r.unique_id, ret.days)), TimedP90(ret.days))

\* C5 witness: a listed model has a failed timed run in the window, and its
\* average differs from the mean of its successful runs.
C5_Witness ==
    /\ ret.fn = "get_models_summary"
    /\ \E r \in ModelRows :
          /\ TimedSuccessful(r.unique_id, ret.days) # {}
          /\ \E o \in Timed(r.unique_id, ret.days) : o.status = "fail"
          /\ ~SameValue(r.avg_execution_time,
                        MeanOf(TimedSuccessful(r.unique_id, ret.days)))

\* The models with timed data in the window.
TimedModels(days) == {m \in ModelIds : Timed(m, days) # {}}

\* C6: with fewer than 2 models with timed data in the window, no model is
\* slow in either branch, and every call returns a frame.
C6_FewerThanTwoTimedModels ==
    /\ ( ret.fn = "get_models_summary"
         /\ Cardinality(TimedModels(ret.days)) < 2 )
       => \A r \in ModelRows : ~r.is_slow
    /\ ( ret = NoCall /\ \A d \in Days : Cardinality(TimedModels(d)) < 2 )
       => \A d \in Days, show_all \in BOOLEAN :
              get_models_summary(d, <<>>, show_all, 2, 0) # {}

\* C6 witness: the only model with timed data averages more than the floor
\* and is listed, not slow.
C6_Witness ==
    /\ ret.fn = "get_models_summary"
    /\ Cardinality(TimedModels(ret.days)) = 1
    /\ \E r \in ModelRows :
          /\ r.avg_execution_time # NULL
          /\ r.avg_execution_time[1] > SLOW_MODEL_MIN_SECONDS * r.avg_execution_time[2]
          /\ ~r.is_slow

\* The average and the slow classification the default branch computes for
\* model m over the current tables.
Average(m, days) == AvgExecutionTime(ModelSlice(days, <<>>), m)

Slow(m, days) == IsSlow(Average(m, days), P90Default(days))

\* A step raises the average of m and leaves every other model's average as
\* it was.
Raised(m, days) ==
    /\ Average(m, days) # NULL
    /\ Average(m, days)' # NULL
    /\ FracGt(Average(m, days)', Average(m, days))
    /\ \A o \in ModelIds \ {m} : Average(o, days)' = Average(o, days)

\* C7 as stated: a step that raises one model's average above the current
\* p90, the other averages unchanged, leaves that model slow.
C7_MonotonicAboveCurrentP90 ==
    [][dbt_run_results' # dbt_run_results =>
       \A m \in ModelIds, d \in Days :
          ( /\ Raised(m, d)
            /\ P90Default(d) # NULL
            /\ FracGt(Average(m, d)', P90Default(d)) )
          => Slow(m, d)']_vars

\* C7 (amended): a step that raises one model's average above the current
\* p90 and above the average of every other model, of which there is at
\* least one, the other averages unchanged, leaves that model slow.
C7_MonotonicAboveOtherAverages ==
    [][dbt_run_results' # dbt_run_results =>
       \A m \in ModelIds, d \in Days :
          ( /\ Raised(m, d)
            /\ P90Default(d) # NULL
            /\ FracGt(Average(m, d)', P90Default(d))
            /\ \E o \in ModelIds \ {m} : Average(o, d) # NULL
            /\ \A o \in ModelIds \ {m} :
                  Average(o, d) # NULL => FracGt(Average(m, d)', Average(o, d)) )
          => Slow(m, d)']_vars

\* C7 witness: the last run recorded took longer than the mean of the earlier
\* timed runs of its model, whose average is now above the average of
\* another model, and the summary lists the model as slow.
C7_Witness ==
    /\ ret.fn = "get_models_summary"
    /\ Len(dbt_run_results) >= 3
    /\ LET last == dbt_run_results[Len(dbt_run_results)]
           m == last.unique_id
           earlier == {o \in Timed(m, ret.days) : o.pos < Len(dbt_run_results)}
       IN  /\ m \in ModelIds
           /\ last.execution_time # NULL
           /\ InWindow(last.generated_at, ret.days)
           /\ earlier # {}
           /\ FracGt(<<last.execution_time[1], 1>>, MeanOf(earlier))
           /\ \E o \in ModelIds \ {m} :
                 /\ Timed(o, ret.days) # {}
                 /\ FracGt(MeanOf(Timed(m, ret.days)), MeanOf(Timed(o, ret.days)))
           /\ \E r \in ModelRows : r.unique_id = m /\ r.is_slow

---------------------------------------------------------------------------
(* Claims on the test ratios (SpecTests) *)

NonWarn(id, days) == {o \in Observed(id, days) : o.status # "warn"}

Passes(id, days) == {o \in Observed(id, days) : o.status = "pass"}

\* r is num / den rounded to thousandths, half up.
IsRounded3(r, num, den) ==
    /\ 2 * den * r <= 2000 * num + den
    /\ 2000 * num + den < 2 * den * (r + 1)

---------------------------------------------------------------------------
(* page_modules/growth.py: row-count growth *)

ModelNames == {NameOf(m) : m \in ModelIds}        \* ROW_COUNT_LOG.model_name
RowCounts == {NULL, <<0>>, <<2>>, <<3>>}          \* ROW_COUNT_LOG.row_count
Trends == {"All", "Growing", "Shrinking"}         \* the Trend select box

\* ROW_NUMBER() OVER (PARTITION BY key ORDER BY ts ASC) = 1: as RowNumberOne,
\* for the first row of each partition.
RowNumberOneOldest(S, key, ts) ==
    LET keys == {key[i] : i \in S}
    IN  {f \in [keys -> S] :
            \A k \in keys : /\ key[f[k]] = k
                            /\ \A j \in S : key[j] = k => ts[f[k]] <= ts[j]}

\* WHERE run_started_at >= DATEADD(day, -{days}, ...) {search_filter}
GrowthSlice(days, search) ==
    {i \in DOMAIN row_count_log :
        /\ InWindow(row_count_log[i].run_started_at, days)
        /\ SearchFilter(row_count_log[i].model_name, search)}

LogName == [i \in DOMAIN row_count_log |-> row_count_log[i].model_name]
LogTime == [i \in DOMAIN row_count_log |-> row_count_log[i].run_started_at]

\* a / b of two integers in SQL: a NUMBER of scale 6, rounded half away from
\* zero; the result is in millionths.
Abs(x) == IF x < 0 THEN 0 - x ELSE x
Sign(x) == IF x < 0 THEN 0 - 1 ELSE 1
\* SqlDivide as an integer division.
SqlDivideInteger(a, b) == Sign(a) * Sign(b) * (Abs(a) \div Abs(b)) * 1000000

SqlDivide(a, b) == Sign(a) * Sign(b) * ((2000000 * Abs(a) + Abs(b)) \div (2 * Abs(b)))

\* ChangePct that takes equal counts for no trend.
ChangePctNoTrendWhenEqual(latest_count, earliest_count) ==
    IF earliest_count # NULL /\ earliest_count[1] > 0
          /\ latest_count # NULL /\ latest_count # earliest_count
    THEN <<SqlDivide(latest_count[1] - earliest_count[1], earliest_count[1])>>
    ELSE NULL

\* ChangePct with COALESCE(..., 0) around the CASE.
ChangePctZeroWhenUndefined(latest_count, earliest_count) ==
    IF earliest_count # NULL /\ earliest_count[1] > 0 /\ latest_count # NULL
    THEN <<SqlDivide(latest_count[1] - earliest_count[1], earliest_count[1])>>
    ELSE <<0>>

\* The CASE of combined; change_pct is in ten-thousandths of a percent
\* (millionths of the ratio, times 100).
ChangePct(latest_count, earliest_count) ==
    IF earliest_count # NULL /\ earliest_count[1] > 0
    THEN IF latest_count = NULL THEN NULL
         ELSE <<SqlDivide(latest_count[1] - earliest_count[1], earliest_count[1])>>
    ELSE NULL

\* combined: latest LEFT JOIN earliest WHERE rn = 1, under the rankings l of
\* latest and e of earliest.
Combined(l, e) ==
    {[model_name |-> k,
      latest_row_count |-> row_count_log[l[k]].row_count,
      earliest_row_count |-> row_count_log[e[k]].row_count,
      change_pct |-> ChangePct(row_count_log[l[k]].row_count,
                               row_count_log[e[k]].row_count)] : k \in DOMAIN l}

\* WHERE 1=1 {trend_filter}: a comparison with NULL is not true.
TrendFilter(r, trend) ==
    CASE trend = "Growing" -> r.change_pct # NULL /\ r.change_pct[1] > 0
      [] trend = "Shrinking" -> r.change_pct # NULL /\ r.change_pct[1] < 0
      [] OTHER -> TRUE

AbsChange(r) == IF r.change_pct = NULL THEN 0 ELSE Abs(r.change_pct[1])

\* {order_by}: change_pct DESC, change_pct ASC, or ABS(COALESCE(change_pct, 0)) DESC.
GrowthOrder(S, trend) ==
    {p \in S \X S :
        CASE trend = "Growing" -> p[1].change_pct[1] > p[2].change_pct[1]
          [] trend = "Shrinking" -> p[1].change_pct[1] < p[2].change_pct[1]
          [] OTHER -> AbsChange(p[1]) > AbsChange(p[2])}

_get_growth_summary(search, days, trend, limit, offset) ==
    UNION {
        LET rows == {r \in Combined(l, e) : TrendFilter(r, trend)}
        IN  {LimitOffset(s, limit, offset) : s \in OrderBy(rows, GrowthOrder(rows, trend))} :
        l \in RowNumberOne(GrowthSlice(days, search), LogName, LogTime),
        e \in RowNumberOneOldest(GrowthSlice(days, search), LogName, LogTime)}

\* page_size of the growth page.
page_size == 100

\* How a NULL of the CHANGE_PCT column arrives in the data frame depends on
\* the column type the driver picks: None (object column) or NaN (float).
MissingValues == {"None", "NaN"}

\* f"{change_pct:+.1f}": tenths of a percent, from ten-thousandths.
Tenths(x) == Sign(x) * ((Abs(x) + 500) \div 1000)

\* The icon, badge and Change metric render shows for one row, the NULLs of
\* the frame having arrived as `missing`.
GrowthCard(r, missing) ==
    LET x == r.change_pct
        isNone == x = NULL /\ missing = "None"
        isNaN == x = NULL /\ missing = "NaN"
        gt(y) == x # NULL /\ x[1] > y * 10000
        lt(y) == x # NULL /\ x[1] < y * 10000
    IN  [model_name |-> r.model_name,
         icon |-> IF isNone THEN "chart"
                  ELSE IF gt(50) THEN "up"
                  ELSE IF lt(0 - 20) THEN "down"
                  ELSE IF gt(10) THEN "up"
                  ELSE IF lt(0 - 10) THEN "down"
                  ELSE "chart",
         badge |-> IF isNone THEN ""
                   ELSE IF gt(50) THEN "HIGH GROWTH"
                   ELSE IF lt(0 - 20) THEN "SHRINKING"
                   ELSE "",
         change |-> IF isNone THEN [text |-> "N/A", tenths |-> 0]
                    ELSE IF isNaN THEN [text |-> "+nan%", tenths |-> 0]
                    ELSE [text |-> "percent", tenths |-> Tenths(x[1])]]

\* A row-count observation is logged.
AppendRowCount(max) ==
    /\ ret = NoCall
    /\ Len(row_count_log) < max
    /\ \E name \in ModelNames, rc \in RowCounts, ts \in 0 .. now :
          row_count_log' = Append(row_count_log,
              [model_name |-> name, row_count |-> rc, run_started_at |-> ts])
    /\ UNCHANGED <<now, dbt_models, dbt_run_results, elementary_test_results,
                   dbt_invocations, cache, ui, ret>>

CallGrowthSummary ==
    /\ ret = NoCall
    /\ \E search \in Searches, days \in Days, trend \in Trends,
          limit \in Limits, offset \in Offsets :
          \E df \in _get_growth_summary(search, days, trend, limit, offset) :
              ret' = [fn |-> "_get_growth_summary", days |-> days, search |-> search,
                      trend |-> trend, limit |-> limit, offset |-> offset, df |-> df]
    /\ UNCHANGED store

\* render: the first page (every model fits on it) and one card per row.
RenderGrowth ==
    /\ ret = NoCall
    /\ \E search \in Searches, days \in Days, trend \in Trends :
          \E df \in _get_growth_summary(search, days, trend, page_size, 0),
             missing \in MissingValues :
              ret' = [fn |-> "render", days |-> days, search |-> search,
                      trend |-> trend, limit |-> page_size, offset |-> 0, df |-> df,
                      cards |-> [k \in DOMAIN df |-> GrowthCard(df[k], missing)]]
    /\ UNCHANGED store

InitGrowth == InitAlerts

NextGrowth ==
    \/ AppendRowCount(MaxLogRows)
    \/ Tick
    \/ CallGrowthSummary
    \/ RenderGrowth
    \/ Rerun

SpecGrowth == InitGrowth /\ [][NextGrowth]_vars

---------------------------------------------------------------------------
(* Claims on the growth summary (SpecGrowth) *)

GrowthQueries == {"_get_growth_summary", "render"}

GrowthRows == {ret.df[k] : k \in DOMAIN ret.df}

\* The row-count observations of a model inside the window.
Logged(name, days) ==
    {[pos |-> i, rc |-> row_count_log[i].row_count,
      ts |-> row_count_log[i].run_started_at] :
        i \in {j \in DOMAIN row_count_log :
                 /\ row_count_log[j].model_name = name
                 /\ row_count_log[j].run_started_at >= now - days}}

Oldest(name, days) ==
    {o \in Logged(name, days) : \A q \in Logged(name, days) : o.ts <= q.ts}

Latest(name, days) ==
    {o \in Logged(name, days) : \A q \in Logged(name, days) : q.ts <= o.ts}

C13_UndefinedOnZeroBaseline ==
    /\ ret.fn \in GrowthQueries =>
          \A r \in GrowthRows :
              /\ r.earliest_row_count \in {NULL, <<0>>} => r.change_pct = NULL
              /\ (\A o \in Oldest(r.model_name, ret.days) : o.rc \in {NULL, <<0>>})
                    => r.change_pct = NULL
    /\ ret = NoCall =>
          \A days \in Days, trend \in Trends :
              _get_growth_summary(<<>>, days, trend, page_size, 0) # {}

\* C13 witness: a model went from 0 rows to 3 and is listed with a null
\* change_pct.
C13_Witness ==
    /\ ret.fn = "_get_growth_summary"
    /\ \E r \in GrowthRows :
          /\ \A o \in Oldest(r.model_name, ret.days) : o.rc = <<0>>
          /\ r.earliest_row_count = <<0>>
          /\ r.latest_row_count = <<3>>
          /\ r.change_pct = NULL

\* x, in millionths, is num / den to the nearest millionth.
IsRatio(x, num, den) == 2 * Abs(x * den - 1000000 * num) <= den

\* C14: every model with observations in the window is listed once (trend
\* All, search and LIMIT aside) with, as earliest_row_count and
\* latest_row_count, the row counts of an observation with the minimal and
\* of one with the maximal timestamp in the window, and, when earliest > 0,
\* change_pct = (latest - earliest) / earliest * 100, which is 0 when they
\* are equal.
C14_EarliestLatestChange ==
    ret.fn \in GrowthQueries =>
        /\ \A r \in GrowthRows :
              /\ \E o \in Oldest(r.model_name, ret.days) : o.rc = r.earliest_row_count
              /\ \E o \in Latest(r.model_name, ret.days) : o.rc = r.latest_row_count
              /\ ( /\ r.earliest_row_count # NULL
                   /\ r.earliest_row_count[1] > 0
                   /\ r.latest_row_count # NULL )
                 => /\ r.change_pct # NULL
                    /\ IsRatio(r.change_pct[1],
                               r.latest_row_count[1] - r.earliest_row_count[1],
                               r.earliest_row_count[1])
                    /\ r.latest_row_count = r.earliest_row_count => r.change_pct = <<0>>
        /\ (ret.trend = "All" /\ ret.search = <<>> /\ ret.offset = 0
              /\ ret.limit >= Cardinality(ModelNames))
              => \A name \in ModelNames :
                    Logged(name, ret.days) # {} =>
                        Cardinality({k \in DOMAIN ret.df :
                                        ret.df[k].model_name = name}) = 1

\* C14 witness: a model went from 3 rows to 2 at a later time and is listed
\* with a change of a third down.
C14_Witness ==
    /\ ret.fn = "_get_growth_summary"
    /\ \E r \in GrowthRows :
          /\ \A o \in Oldest(r.model_name, ret.days) : o.rc = <<3>>
          /\ \A o \in Latest(r.model_name, ret.days) : o.rc = <<2>>
          /\ r.earliest_row_count = <<3>>
          /\ r.latest_row_count = <<2>>
          /\ r.change_pct = <<0 - 333333>>

---------------------------------------------------------------------------
(* services/models_service.py, page_modules/credits.py: daily trend *)

\* In the daily trend the clock ticks TicksPerDay times a day.
TicksPerDay == 2

\* DATE_TRUNC('day', generated_at): the first tick of the day.
DateTrunc(ts) == (ts \div TicksPerDay) * TicksPerDay

\* WHERE unique_id = '{unique_id}' AND generated_at >= DATEADD(day, -{days}, ...)
\* and, in credits.py, AND status = 'success'.
TrendSlice(unique_id, days, statuses) ==
    {i \in DOMAIN dbt_run_results :
        /\ dbt_run_results[i].unique_id = unique_id
        /\ dbt_run_results[i].generated_at >= now - days * TicksPerDay
        /\ dbt_run_results[i].status \in statuses}

\* MAX / MIN(execution_time) over the rows S, NULL when none is timed.
ExtremeExecutionTime(S, greatest) ==
    LET timed == {dbt_run_results[i].execution_time[1] :
                     i \in {j \in S : dbt_run_results[j].execution_time # NULL}}
    IN  IF timed = {} THEN NULL
        ELSE <<CHOOSE x \in timed :
                  \A y \in timed : IF greatest THEN y <= x ELSE x <= y>>

\* DailyBuckets with one zero-filled bucket for every day of the window.
DailyBucketsDense(S, unique_id) ==
    {LET G == {i \in S : DateTrunc(dbt_run_results[i].generated_at) = d}
     IN  [run_date |-> d,
          avg_time |-> AvgExecutionTime(G, unique_id),
          max_time |-> ExtremeExecutionTime(G, TRUE),
          min_time |-> ExtremeExecutionTime(G, FALSE),
          run_count |-> Cardinality(G)] :
        d \in {DateTrunc(t) : t \in 0 .. now}}

\* GROUP BY DATE_TRUNC('day', generated_at) over the slice S of one model.
DailyBuckets(S, unique_id) ==
    {LET G == {i \in S : DateTrunc(dbt_run_results[i].generated_at) = d}
     IN  [run_date |-> d,
          avg_time |-> AvgExecutionTime(G, unique_id),
          max_time |-> ExtremeExecutionTime(G, TRUE),
          min_time |-> ExtremeExecutionTime(G, FALSE),
          run_count |-> Cardinality(G)] :
        d \in {DateTrunc(dbt_run_results[i].generated_at) : i \in S}}

\* ORDER BY run_date
EarlierDayFirst(S) == {p \in S \X S : p[1].run_date < p[2].run_date}

get_model_execution_trend(unique_id, days) ==
    LET rows == DailyBuckets(TrendSlice(unique_id, days, RunStatuses), unique_id)
    IN  OrderBy(rows, EarlierDayFirst(rows))

_get_model_time_trend(unique_id, days) ==
    LET rows == DailyBuckets(TrendSlice(unique_id, days, {"success"}), unique_id)
    IN  OrderBy(rows, EarlierDayFirst(rows))

CallModelExecutionTrend ==
    /\ ret = NoCall
    /\ \E unique_id \in RunIds, days \in Days :
          \E df \in get_model_execution_trend(unique_id, days) :
              ret' = [fn |-> "get_model_execution_trend", unique_id |-> unique_id,
                      days |-> days, df |-> df]
    /\ UNCHANGED store

CallModelTimeTrend ==
    /\ ret = NoCall
    /\ \E unique_id \in RunIds, days \in Days :
          \E df \in _get_model_time_trend(unique_id, days) :
              ret' = [fn |-> "_get_model_time_trend", unique_id |-> unique_id,
                      days |-> days, df |-> df]
    /\ UNCHANGED store

\* The clock stands in the third day, so that a window of two days cuts
\* through the first.
TrendNow == 2 * TicksPerDay + 1

InitTrend ==
    /\ now = TrendNow
    /\ dbt_models = ModelIds
    /\ dbt_run_results = <<>>
    /\ elementary_test_results = <<>>
    /\ row_count_log = <<>>
    /\ dbt_invocations = <<>>
    /\ cache = EmptyCache
    /\ session_state = NoSession
    /\ browser = Blank
    /\ ret = NoCall

NextTrend ==
    \/ AppendRunResult(MaxTrendRows, {"success", "fail"}, {NULL, <<20>>, <<60>>},
                       {0, 1, TrendNow - 1})
    \/ CallModelExecutionTrend
    \/ CallModelTimeTrend
    \/ Rerun

SpecTrend == InitTrend /\ [][NextTrend]_vars

---------------------------------------------------------------------------
(* Claims on the daily trend (SpecTrend) *)

\* The statuses a trend query selects.
Selects(fn) == IF fn = "_get_model_time_trend" THEN {"success"} ELSE RunStatuses

\* The in-window records of the model the last trend call was about, among
\* the statuses that call selects, on the calendar day that starts at tick d.
DayRecords(d) ==
    {[pos |-> i, et |-> dbt_run_results[i].execution_time] :
        i \in {j \in DOMAIN dbt_run_results :
                 /\ dbt_run_results[j].unique_id = ret.unique_id
                 /\ dbt_run_results[j].status \in Selects(ret.fn)
                 /\ dbt_run_results[j].generated_at >= now - ret.days * TicksPerDay
                 /\ dbt_run_results[j].generated_at \in d .. d + TicksPerDay - 1}}

TrendQueries == {"get_model_execution_trend", "_get_model_time_trend"}

DayStarts == {d \in 0 .. now : d % TicksPerDay = 0}

\* C15: the daily trend has at most one bucket per calendar day, in strictly
\* ascending day order; each bucket has count >= 1, the count and the mean
\* execution time of that day's records; a day without records has no bucket
\* and a day with records has one.
C15_SparseDailyBuckets ==
    ret.fn \in TrendQueries =>
        /\ \A j, k \in DOMAIN ret.df : j < k => ret.df[j].run_date < ret.df[k].run_date
        /\ \A k \in DOMAIN ret.df :
              /\ ret.df[k].run_date \in DayStarts
              /\ ret.df[k].run_count >= 1
              /\ ret.df[k].run_count = Cardinality(DayRecords(ret.df[k].run_date))
              /\ SameValue(ret.df[k].avg_time,
                           MeanOf({o \in DayRecords(ret.df[k].run_date) : o.et # NULL}))
        /\ \A d \in DayStarts :
              DayRecords(d) # {} <=> \E k \in DOMAIN ret.df : ret.df[k].run_date = d

\* C15 witness: two buckets, the first of a day with two timed records, and
\* no bucket for the day between them, which has no record.
C15_Witness ==
    /\ ret.fn \in TrendQueries
    /\ Len(ret.df) = 2
    /\ ret.df[1].run_count = 2
    /\ ret.df[1].avg_time = <<80, 2>>
    /\ ret.df[2].run_count = 1
    /\ ret.df[2].run_date = ret.df[1].run_date + 2 * TicksPerDay
    /\ DayRecords(ret.df[1].run_date + TicksPerDay) = {}

---------------------------------------------------------------------------
(* services/runs_service.py, page_modules/runs.py: run timeline *)

InvocationIds == {"i1", "i2"}

\* WHERE i.invocation_id = '{invocation_id}'
get_invocation_details(invocation_id) ==
    LET Matches(i) == i.invocation_id = invocation_id
    IN  SelectSeq(dbt_invocations, Matches)

\* ORDER BY r.execute_started_at ASC NULLS LAST, r.generated_at ASC
StartedFirst(S) ==
    {p \in S \X S :
        \/ /\ p[1].execute_started_at # NULL
           /\ \/ p[2].execute_started_at = NULL
              \/ p[1].execute_started_at[1] < p[2].execute_started_at[1]
        \/ /\ p[1].execute_started_at = p[2].execute_started_at
           /\ p[1].generated_at < p[2].generated_at}

\* The model runs of one invocation, in the order of the query.
get_invocation_models(invocation_id) ==
    LET rows == {[row |-> i, unique_id |-> dbt_run_results[i].unique_id,
                  name |-> NameOf(dbt_run_results[i].unique_id),
                  status |-> dbt_run_results[i].status,
                  execution_time |-> dbt_run_results[i].execution_time,
                  execute_started_at |-> dbt_run_results[i].execute_started_at,
                  execute_completed_at |-> dbt_run_results[i].execute_completed_at,
                  generated_at |-> dbt_run_results[i].generated_at] :
                    i \in {j \in DOMAIN dbt_run_results :
                             /\ dbt_run_results[j].invocation_id = invocation_id
                             /\ dbt_run_results[j].resource_type = "model"}}
    IN  OrderBy(rows, StartedFirst(rows))

\* df["EXECUTE_STARTED_AT"].notna() & df["EXECUTE_COMPLETED_AT"].notna()
HasTiming(r) == r.execute_started_at # NULL /\ r.execute_completed_at # NULL

\* timing_df["START"].min()
MinStart(timing_df) ==
    CHOOSE x \in {timing_df[k].execute_started_at[1] : k \in DOMAIN timing_df} :
        \A k \in DOMAIN timing_df : x <= timing_df[k].execute_started_at[1]

\* RunStart that always takes the earliest START.
RunStartEarliest(details, timing_df) == MinStart(timing_df)

\* run_start: details' RUN_STARTED_AT, or the earliest START when it is NaT.
RunStart(details, timing_df) ==
    IF details.run_started_at # NULL THEN details.run_started_at[1]
    ELSE MinStart(timing_df)

\* timing_df["EXECUTION_TIME"].sum(): missing values are skipped.
RECURSIVE SumColumn(_)
SumColumn(timing_df) ==
    IF timing_df = <<>> THEN 0
    ELSE (IF Head(timing_df).execution_time = NULL THEN 0
          ELSE Head(timing_df).execution_time[1]) + SumColumn(Tail(timing_df))

\* timing_df["END_SEC"].max()
MaxEnd(entries) ==
    CHOOSE x \in {entries[k].END_SEC : k \in DOMAIN entries} :
        \A k \in DOMAIN entries : entries[k].END_SEC <= x

\* Parallelism without the guard on max_end.
ParallelismUnguarded(total_time, max_end) == <<total_time, max_end>>

\* Parallelism as wall-clock time over model time.
ParallelismInverted(total_time, max_end) ==
    IF max_end > 0 /\ total_time > 0 THEN <<max_end, total_time>> ELSE <<1, 1>>

\* Offset clamped at 0.
OffsetClamped(ts, run_start) == IF ts < run_start THEN 0 ELSE ts - run_start

\* (timing_df["START"] - run_start).dt.total_seconds()
Offset(ts, run_start) == ts - run_start

\* total_time / max_end if max_end > 0 else 1, as a fraction.
Parallelism(total_time, max_end) ==
    IF max_end > 0 THEN <<total_time, max_end>> ELSE <<1, 1>>

\* What _render_waterfall_chart shows from the frame df of the model runs.
Waterfall(invocation_id, details, df) ==
    LET timing_df == SelectSeq(df, HasTiming)
        run_start == RunStart(details, timing_df)
        entries == [k \in DOMAIN timing_df |->
                       [row |-> timing_df[k].row,
                        name |-> timing_df[k].name,
                        status |-> timing_df[k].status,
                        execution_time |-> timing_df[k].execution_time,
                        START_SEC |-> Offset(timing_df[k].execute_started_at[1], run_start),
                        END_SEC |-> Offset(timing_df[k].execute_completed_at[1], run_start)]]
        shown == [fn |-> "_render_waterfall_chart", invocation_id |-> invocation_id,
                  details |-> details]
    IN  IF df = <<>>
        THEN shown @@
             [info |-> "No model timing data available", timing_df |-> <<>>,
              total_time |-> 0, max_end |-> 0, parallelism |-> NULL]
        ELSE IF timing_df = <<>>
        THEN shown @@
             [info |-> "No execution timing data available for waterfall chart",
              timing_df |-> <<>>, total_time |-> 0, max_end |-> 0, parallelism |-> NULL]
        ELSE shown @@
             [info |-> "", timing_df |-> entries,
              total_time |-> SumColumn(timing_df), max_end |-> MaxEnd(entries),
              parallelism |-> Parallelism(SumColumn(timing_df), MaxEnd(entries))]

_render_waterfall_chart(invocation_id, details) ==
    {Waterfall(invocation_id, details, df) : df \in get_invocation_models(invocation_id)}

\* The (start, end) pairs and execution times, in seconds, offered to a run.
Spans == {<<0, 10>>, <<0, 20>>, <<0, 30>>, <<10, 30>>, <<30, 60>>}

Timings ==
    UNION {{[execute_started_at |-> <<sp[1]>>, execute_completed_at |-> <<sp[2]>>,
             execution_time |-> et, status |-> "success"] :
               et \in {NULL, <<10>>, <<sp[2] - sp[1]>>}} : sp \in Spans}
    \cup
    {[execute_started_at |-> sp[1], execute_completed_at |-> sp[2],
      execution_time |-> NULL, status |-> "skipped"] :
        sp \in {<<NULL, NULL>>, <<NULL, <<10>>>>, <<<<0>>, NULL>>}}

\* The (unique_id, invocation_id) pairs offered to a run.
TimelineKeys ==
    {<<CHOOSE m \in ModelIds : TRUE, "i1">>,
     <<CHOOSE m \in SeedIds : TRUE, "i1">>,
     <<CHOOSE m \in ModelIds : TRUE, "i2">>}

\* A run of an invocation is recorded.
AppendInvocationRun(max) ==
    /\ ret = NoCall
    /\ Len(dbt_run_results) < max
    /\ \E key \in TimelineKeys, t \in Timings :
          dbt_run_results' = Append(dbt_run_results,
              [unique_id |-> key[1], resource_type |-> ResourceType(key[1]),
               invocation_id |-> key[2], status |-> t.status,
               execution_time |-> t.execution_time, generated_at |-> 0,
               execute_started_at |-> t.execute_started_at,
               execute_completed_at |-> t.execute_completed_at])
    /\ UNCHANGED <<now, dbt_models, elementary_test_results, row_count_log,
                   dbt_invocations, cache, ui, ret>>

\* The Timeline tab of _render_invocation_detail, for an invocation found.
RenderWaterfall ==
    /\ ret = NoCall
    /\ \E invocation_id \in InvocationIds :
          /\ get_invocation_details(invocation_id) # <<>>
          /\ \E shown \in _render_waterfall_chart(invocation_id,
                                get_invocation_details(invocation_id)[1]) :
                 ret' = shown
    /\ UNCHANGED store

\* Two invocations; the first may lack its run_started_at, or carry one
\* later than the start of its first model (clock skew).
InitTimeline ==
    /\ now = 0
    /\ dbt_models = ModelIds
    /\ dbt_run_results = <<>>
    /\ elementary_test_results = <<>>
    /\ row_count_log = <<>>
    /\ \E r \in {NULL, <<0>>, <<10>>} :
          dbt_invocations =
              <<[invocation_id |-> "i1", created_at |-> 0, run_started_at |-> r],
                [invocation_id |-> "i2", created_at |-> 0, run_started_at |-> NULL]>>
    /\ cache = EmptyCache
    /\ session_state = NoSession
    /\ browser = Blank
    /\ ret = NoCall

NextTimeline ==
    \/ AppendInvocationRun(MaxTimelineRows)
    \/ RenderWaterfall
    \/ Rerun

SpecTimeline == InitTimeline /\ [][NextTimeline]_vars

---------------------------------------------------------------------------
(* Claims on the run timeline (SpecTimeline) *)

\* The model runs of the invocation last rendered, and the timed ones.
InvocationRuns ==
    {i \in DOMAIN dbt_run_results :
        /\ dbt_run_results[i].invocation_id = ret.invocation_id
        /\ dbt_run_results[i].resource_type = "model"}

TimedRuns ==
    {i \in InvocationRuns : /\ dbt_run_results[i].execute_started_at # NULL
                            /\ dbt_run_results[i].execute_completed_at # NULL}

StartOf(i) == dbt_run_results[i].execute_started_at[1]
EndOf(i) == dbt_run_results[i].execute_completed_at[1]

Entries == {ret.timing_df[k] : k \in DOMAIN ret.timing_df}

\* C16: the waterfall holds exactly the invocation's model runs with both
\* execute_started_at and execute_completed_at, once each; the offsets of all
\* entries are differences from one reference zero and are kept as computed,
\* negative ones included; rendering never fails.
C16_TimedEntriesUnclamped ==
    /\ ret.fn = "_render_waterfall_chart" =>
          /\ {e.row : e \in Entries} = TimedRuns
          /\ Len(ret.timing_df) = Cardinality(TimedRuns)
          /\ \E zero \in 0 .. 60 :
                \A e \in Entries : /\ e.START_SEC = StartOf(e.row) - zero
                                    /\ e.END_SEC = EndOf(e.row) - zero
    /\ ret = NoCall =>
          \A id \in InvocationIds :
              get_invocation_details(id) # <<>> =>
                  _render_waterfall_chart(id, get_invocation_details(id)[1]) # {}

\* C16 witness: the waterfall leaves out an untimed run of the invocation
\* and shows an entry with a negative start offset.
C16_Witness ==
    /\ ret.fn = "_render_waterfall_chart"
    /\ InvocationRuns # TimedRuns
    /\ \E e \in Entries : e.START_SEC < 0

\* The reference zero: run_started_at of the invocation when present,
\* otherwise the least execute_started_at of the timed runs.
ReferenceZero ==
    IF ret.details.run_started_at # NULL THEN ret.details.run_started_at[1]
    ELSE CHOOSE x \in {StartOf(i) : i \in TimedRuns} :
             \A i \in TimedRuns : x <= StartOf(i)

\* C17: offsets are taken from run_started_at of the invocation when it is
\* present and otherwise from the least execute_started_at of the timed
\* entries, in which case the smallest start offset is 0.
C17_ReferenceZero ==
    (ret.fn = "_render_waterfall_chart" /\ TimedRuns # {}) =>
        /\ \A e \in Entries : /\ e.START_SEC = StartOf(e.row) - ReferenceZero
                                /\ e.END_SEC = EndOf(e.row) - ReferenceZero
        /\ ret.details.run_started_at = NULL =>
              /\ \E e \in Entries : e.START_SEC = 0
              /\ \A e \in Entries : e.START_SEC >= 0

\* C17 witness: run_started_at is absent, no timed entry starts at time 0,
\* and the first of two entries is at offset 0.
C17_Witness ==
    /\ ret.fn = "_render_waterfall_chart"
    /\ ret.details.run_started_at = NULL
    /\ Cardinality(TimedRuns) >= 2
    /\ \A i \in TimedRuns : StartOf(i) > 0
    /\ \E e \in Entries : e.START_SEC = 0
    /\ \E e \in Entries : e.START_SEC > 0

\* The sum of execution_time over the timed runs, and the greatest end offset.
RECURSIVE TotalCpu(_)
TotalCpu(S) ==
    IF S = {} THEN 0
    ELSE LET i == CHOOSE x \in S : TRUE
         IN  (IF dbt_run_results[i].execution_time = NULL THEN 0
              ELSE dbt_run_results[i].execution_time[1]) + TotalCpu(S \ {i})

WallSeconds ==
    CHOOSE x \in {EndOf(i) - ReferenceZero : i \in TimedRuns} :
        \A i \in TimedRuns : EndOf(i) - ReferenceZero <= x

\* C18: parallelism is total_cpu_seconds / wall_seconds when wall_seconds > 0
\* and 1 otherwise, total_cpu_seconds being the sum of execution_time over
\* the timed entries and wall_seconds the greatest end offset.
C18_Parallelism ==
    (ret.fn = "_render_waterfall_chart" /\ TimedRuns # {}) =>
        /\ ret.total_time = TotalCpu(TimedRuns)
        /\ ret.max_end = WallSeconds
        /\ IF WallSeconds > 0
           THEN SameValue(ret.parallelism, <<TotalCpu(TimedRuns), WallSeconds>>)
           ELSE SameValue(ret.parallelism, <<1, 1>>)

\* The timed runs of the invocation take s seconds each, for s in secs, and
\* span the intervals in spans.
RunsAre(spans) ==
    /\ Cardinality(TimedRuns) = Cardinality(spans)
    /\ {<<StartOf(i) - ReferenceZero, EndOf(i) - ReferenceZero,
           dbt_run_results[i].execution_time>> : i \in TimedRuns} = spans

\* C18 witness: runs of 10, 20 and 30 seconds, all started at the reference
\* zero, give 2.0.
C18_Witness ==
    /\ ret.fn = "_render_waterfall_chart"
    /\ RunsAre({<<0, 10, <<10>>>>, <<0, 20, <<20>>>>, <<0, 30, <<30>>>>})
    /\ SameValue(ret.parallelism, <<2, 1>>)

\* The same three runs back to back from the reference zero give 1.0.
BackToBack ==
    /\ ret.fn = "_render_waterfall_chart"
    /\ RunsAre({<<0, 10, <<10>>>>, <<10, 30, <<20>>>>, <<30, 60, <<30>>>>})
    /\ SameValue(ret.parallelism, <<1, 1>>)

\* No timed run starts before the reference zero, and each ends after it starts.
SkewFree == \A i \in TimedRuns : StartOf(i) >= ReferenceZero /\ EndOf(i) > StartOf(i)

\* C19 as stated: with at least one entry, total_cpu_seconds > 0 and no clock
\* skew, parallelism >= 1.
C19_ParallelismAtLeastOne ==
    ( /\ ret.fn = "_render_waterfall_chart"
      /\ TimedRuns # {}
      /\ TotalCpu(TimedRuns) > 0
      /\ SkewFree )
    => ret.parallelism[1] >= ret.parallelism[2]

\* Every run lasted at least as long as its span says, and at every second
\* from the reference zero to the last end some run was executing.
NoIdleTime ==
    /\ \A i \in TimedRuns :
          /\ dbt_run_results[i].execution_time # NULL
          /\ dbt_run_results[i].execution_time[1] >= EndOf(i) - StartOf(i)
    /\ \A t \in 0 .. WallSeconds - 1 :
          \E i \in TimedRuns :
              StartOf(i) - ReferenceZero <= t /\ t < EndOf(i) - ReferenceZero

\* C19 (amended): with at least one entry, total_cpu_seconds > 0, no clock
\* skew, execution times no shorter than the entries' spans and no idle time
\* between the reference zero and the last end, parallelism >= 1.
C19_ParallelismAtLeastOneBusy ==
    ( /\ ret.fn = "_render_waterfall_chart"
      /\ TimedRuns # {}
      /\ TotalCpu(TimedRuns) > 0
      /\ SkewFree
      /\ NoIdleTime )
    => ret.parallelism[1] >= ret.parallelism[2]

\* C19 witness: two overlapping runs without idle time, parallelism above 1.
C19_Witness ==
    /\ ret.fn = "_render_waterfall_chart"
    /\ Cardinality(TimedRuns) = 2
    /\ SkewFree
    /\ NoIdleTime
    /\ ret.parallelism[1] > ret.parallelism[2]

---------------------------------------------------------------------------
(* services/runs_service.py: get_invocations; the paged listings *)

\* run_stats: the model runs of an invocation, counted by status.
RunStats(invocation_id, statuses) ==
    Cardinality({j \in DOMAIN dbt_run_results :
                    /\ dbt_run_results[j].resource_type = "model"
                    /\ dbt_run_results[j].invocation_id = invocation_id
                    /\ dbt_run_results[j].status \in statuses})

\* ORDER BY i.created_at DESC
NewestInvocationFirst(S) == {p \in S \X S : p[1].created_at > p[2].created_at}

get_invocations(days, limit, offset) ==
    LET rows == {[row |-> i,
                  invocation_id |-> dbt_invocations[i].invocation_id,
                  created_at |-> dbt_invocations[i].created_at,
                  run_started_at |-> dbt_invocations[i].run_started_at,
                  models_run |-> RunStats(dbt_invocations[i].invocation_id, RunStatuses),
                  success_count |-> RunStats(dbt_invocations[i].invocation_id, {"success"}),
                  fail_count |-> RunStats(dbt_invocations[i].invocation_id, {"fail", "error"}),
                  skipped_count |-> RunStats(dbt_invocations[i].invocation_id, {"skipped"})] :
                    i \in {j \in DOMAIN dbt_invocations :
                              InWindow(dbt_invocations[j].created_at, days)}}
    IN  {LimitOffset(s, limit, offset) : s \in OrderBy(rows, NewestInvocationFirst(rows))}

\* One frame per page, each from its own execution of the query:
\* dfs[k] is the set of frames the k-th execution can return.
PageSeqs(dfs) ==
    {p \in [DOMAIN dfs -> UNION {dfs[k] : k \in DOMAIN dfs}] :
        \A k \in DOMAIN dfs : p[k] \in dfs[k]}

\* offset = current_page * page_size
PageOffset(current_page, limit) == current_page * limit

\* The pages 0, 1, ... of the tests list are fetched one after another.
PageTestsSummary ==
    /\ ret = NoCall
    /\ \E days \in Days, search \in Searches, limit \in Limits :
          \E pages \in PageSeqs([k \in 1 .. MaxPages |->
                         get_tests_summary(days, search, limit, PageOffset(k - 1, limit))]) :
              ret' = [fn |-> "pages", listing |-> "get_tests_summary", days |-> days,
                      search |-> search, flag |-> "", limit |-> limit, pages |-> pages]
    /\ UNCHANGED store

\* The pages of the runs list.
PageInvocations ==
    /\ ret = NoCall
    /\ \E days \in Days, limit \in Limits :
          \E pages \in PageSeqs([k \in 1 .. MaxPages |->
                         get_invocations(days, limit, PageOffset(k - 1, limit))]) :
              ret' = [fn |-> "pages", listing |-> "get_invocations", days |-> days,
                      search |-> <<>>, flag |-> "", limit |-> limit, pages |-> pages]
    /\ UNCHANGED store

\* The pages of the models list, with or without show_all.
PageModelsSummary ==
    /\ ret = NoCall
    /\ \E days \in Days, search \in Searches, show_all \in BOOLEAN, limit \in Limits :
          \E pages \in PageSeqs([k \in 1 .. MaxPages |->
                         get_models_summary(days, search, show_all, limit,
                                            PageOffset(k - 1, limit))]) :
              ret' = [fn |-> "pages", listing |-> "get_models_summary", days |-> days,
                      search |-> search, flag |-> IF show_all THEN "show_all" ELSE "",
                      limit |-> limit, pages |-> pages]
    /\ UNCHANGED store

\* The pages of the growth list.
PageGrowthSummary ==
    /\ ret = NoCall
    /\ \E search \in Searches, days \in Days, trend \in Trends, limit \in Limits :
          \E pages \in PageSeqs([k \in 1 .. MaxPages |->
                         _get_growth_summary(search, days, trend, limit,
                                             PageOffset(k - 1, limit))]) :
              ret' = [fn |-> "pages", listing |-> "_get_growth_summary", days |-> days,
                      search |-> search, flag |-> trend, limit |-> limit, pages |-> pages]
    /\ UNCHANGED store

PageRows ==
    Len(dbt_run_results) + Len(elementary_test_results)
        + Len(row_count_log) + Len(dbt_invocations)

\* dbt records an invocation; invocation_id is unique in dbt_invocations.
AppendInvocation(max) ==
    /\ ret = NoCall
    /\ PageRows < max
    /\ \E id \in InvocationIds, ts \in 0 .. now :
          /\ \A i \in DOMAIN dbt_invocations : dbt_invocations[i].invocation_id # id
          /\ dbt_invocations' = Append(dbt_invocations,
                 [invocation_id |-> id, created_at |-> ts, run_started_at |-> NULL])
    /\ UNCHANGED <<now, dbt_models, dbt_run_results, elementary_test_results,
                   row_count_log, cache, ui, ret>>

\* A model run of an invocation is recorded.
AppendModelRun(max) ==
    /\ ret = NoCall
    /\ PageRows < max
    /\ \E id \in ModelIds, inv \in InvocationIds, status \in {"success", "fail"},
          ts \in 0 .. now :
          dbt_run_results' = Append(dbt_run_results,
              [unique_id |-> id, resource_type |-> ResourceType(id),
               invocation_id |-> inv, status |-> status,
               execution_time |-> <<20>>, generated_at |-> ts,
               execute_started_at |-> NULL, execute_completed_at |-> NULL])
    /\ UNCHANGED <<now, dbt_models, elementary_test_results, row_count_log,
                   dbt_invocations, cache, ui, ret>>

InitPages == InitAlerts

NextPages ==
    \/ PageRows < MaxPageRows /\ AppendTestResult(MaxPageRows)
    \/ AppendModelRun(MaxPageRows)
    \/ PageRows < MaxPageRows /\ AppendRowCount(MaxPageRows)
    \/ AppendInvocation(MaxPageRows)
    \/ Tick
    \/ PageTestsSummary
    \/ PageInvocations
    \/ PageModelsSummary
    \/ PageGrowthSummary
    \/ Rerun

SpecPages == InitPages /\ [][NextPages]_vars

---------------------------------------------------------------------------
(* Claims on the paged listings (SpecPages) *)

\* The entity a listing's row stands for.
KeyOf(listing, r) ==
    CASE listing = "get_tests_summary" -> r.test_unique_id
      [] listing = "get_invocations" -> <<r.invocation_id>>
      [] listing = "get_models_summary" -> r.unique_id
      [] OTHER -> r.model_name

\* The frames the listing returns when nothing is cut off.
Unpaged ==
    LET all == MaxPages * ret.limit
    IN  CASE ret.listing = "get_tests_summary" ->
                 get_tests_summary(ret.days, ret.search, all, 0)
          [] ret.listing = "get_invocations" -> get_invocations(ret.days, all, 0)
          [] ret.listing = "get_models_summary" ->
                 get_models_summary(ret.days, ret.search, ret.flag = "show_all", all, 0)
          [] OTHER -> _get_growth_summary(ret.search, ret.days, ret.flag, all, 0)

\* The items that match whichever way ties are resolved.
Matching ==
    {x \in UNION {{KeyOf(ret.listing, df[j]) : j \in DOMAIN df} : df \in Unpaged} :
        \A df \in Unpaged : \E j \in DOMAIN df : KeyOf(ret.listing, df[j]) = x}

Positions == {p \in (DOMAIN ret.pages) \X (1 .. ret.limit) : p[2] <= Len(ret.pages[p[1]])}
KeyAt(p) == KeyOf(ret.listing, ret.pages[p[1]][p[2]])

\* C20: the pages fetched at offsets 0, limit, 2*limit, ... of a listing
\* list every matching item, and no item twice.
C20_PagesListEachItemOnce ==
    ret.fn = "pages" =>
        /\ \A x \in Matching : \E p \in Positions : KeyAt(p) = x
        /\ \A p, q \in Positions : p # q => KeyAt(p) # KeyAt(q)

---------------------------------------------------------------------------
(* services/runs_service.py, page_modules/growth.py: totals of the listings *)

\* SELECT COUNT(*) as total FROM dbt_invocations WHERE created_at >= ...
get_invocations_count(days) ==
    Cardinality({j \in DOMAIN dbt_invocations :
                    InWindow(dbt_invocations[j].created_at, days)})

\* SELECT COUNT(*) as total FROM combined WHERE 1=1 {trend_filter}: one total
\* for each way the two ROW_NUMBER rankings can come out.
_get_growth_count(search, days, trend) ==
    {Cardinality({r \in Combined(l, e) : TrendFilter(r, trend)}) :
        l \in RowNumberOne(GrowthSlice(days, search), LogName, LogTime),
        e \in RowNumberOneOldest(GrowthSlice(days, search), LogName, LogTime)}

\* The runs list: the total, then its pages.
CountInvocations ==
    /\ ret = NoCall
    /\ \E days \in Days, limit \in Limits :
          \E pages \in PageSeqs([k \in 1 .. MaxPages |->
                         get_invocations(days, limit, PageOffset(k - 1, limit))]) :
              ret' = [fn |-> "counted", listing |-> "get_invocations", days |-> days,
                      search |-> <<>>, flag |-> "", limit |-> limit,
                      total |-> get_invocations_count(days), pages |-> pages]
    /\ UNCHANGED store

\* The growth list: the total, then its pages.
CountGrowth ==
    /\ ret = NoCall
    /\ \E search \in Searches, days \in Days, trend \in Trends, limit \in Limits :
          \E total \in _get_growth_count(search, days, trend) :
              \E pages \in PageSeqs([k \in 1 .. MaxPages |->
                             _get_growth_summary(search, days, trend, limit,
                                                 PageOffset(k - 1, limit))]) :
                  ret' = [fn |-> "counted", listing |-> "_get_growth_summary",
                          days |-> days, search |-> search, flag |-> trend,
                          limit |-> limit, total |-> total, pages |-> pages]
    /\ UNCHANGED store

InitCounts == InitAlerts

NextCounts ==
    \/ PageRows < MaxCountRows /\ AppendRowCount(MaxCountRows)
    \/ AppendInvocation(MaxCountRows)
    \/ Tick
    \/ CountInvocations
    \/ CountGrowth
    \/ Rerun

SpecCounts == InitCounts /\ [][NextCounts]_vars

---------------------------------------------------------------------------
(* Claims on the totals (SpecCounts) *)

RECURSIVE PagedRows(_)
PagedRows(pages) ==
    IF pages = <<>> THEN 0 ELSE Len(Head(pages)) + PagedRows(Tail(pages))

\* C21: every page holds at most limit rows, and the total returned by the
\* count query equals the number of rows of the listing over all its pages.
C21_TotalEqualsPagedRows ==
    ret.fn = "counted" =>
        /\ \A k \in DOMAIN ret.pages : Len(ret.pages[k]) <= ret.limit
        /\ ret.total = PagedRows(ret.pages)

\* The same for the runs list alone.
InvocationsTotalEqualsPagedRows ==
    (ret.fn = "counted" /\ ret.listing = "get_invocations") =>
        /\ \A k \in DOMAIN ret.pages : Len(ret.pages[k]) <= ret.limit
        /\ ret.total = PagedRows(ret.pages)

\* The same for the growth list without a trend filter.
GrowthAllTotalEqualsPagedRows ==
    (ret.fn = "counted" /\ ret.listing = "_get_growth_summary" /\ ret.flag = "All") =>
        ret.total = PagedRows(ret.pages)

---------------------------------------------------------------------------
(* database.py, page_modules/growth.py: a fetch the store rejects *)

\* session.sql(query).to_pandas(): the store runs the query and one of its
\* results comes back, or the store rejects it and the call raises.
session_sql(results, rejected) ==
    IF rejected
    THEN {[raised |-> TRUE, value |-> <<>>, executions |-> 1]}
    ELSE {[raised |-> FALSE, value |-> v, executions |-> 1] : v \in results}

\* return run_query(query), as every function of services/ ends.
ReturnRunQuery(results, rejected) == session_sql(results, rejected)

\* try: return run_query(query)
\* except Exception: return run_query("SELECT 1 WHERE FALSE")
TryRunQuery(results, rejected, again) ==
    UNION {IF o.raised
           THEN {[raised |-> f.raised, value |-> f.value, executions |-> 2] :
                    f \in session_sql({<<>>}, again)}
           ELSE {o} : o \in session_sql(results, rejected)}

\* return 0 in place of the except branch that lets the failure out.
RaiseOnFailure(totals, rejected) ==
    {[raised |-> o.raised, value |-> IF o.raised THEN 0 ELSE o.value[1],
      executions |-> 1] :
        o \in session_sql({<<t>> : t \in totals}, rejected)}

\* try: result = run_query(query); return int(result.iloc[0]["TOTAL"])
\* except Exception: return 0
ZeroOnFailure(totals, rejected) ==
    {[raised |-> FALSE, value |-> IF o.raised THEN 0 ELSE o.value[1],
      executions |-> 1] :
        o \in session_sql({<<t>> : t \in totals}, rejected)}

\* ORDER BY run_started_at
EarlierObservationFirst(S) ==
    {p \in S \X S : row_count_log[p[1]].run_started_at < row_count_log[p[2]].run_started_at}

\* The query of _get_model_trend: the observations of one model in the window.
ModelTrendRows(model_name, days) ==
    LET S == {i \in DOMAIN row_count_log :
                 /\ Lower(row_count_log[i].model_name) = Lower(model_name)
                 /\ InWindow(row_count_log[i].run_started_at, days)}
    IN  {[k \in DOMAIN s |-> [run_started_at |-> row_count_log[s[k]].run_started_at,
                              row_count |-> row_count_log[s[k]].row_count]] :
            s \in OrderBy(S, EarlierObservationFirst(S))}

_get_model_trend(model_name, days, rejected, again) ==
    TryRunQuery(ModelTrendRows(model_name, days), rejected, again)

\* The outcome of a call, as its caller sees it.
Outcome(fn, days, rejected, o) ==
    [fn |-> fn, days |-> days, rejected |-> rejected,
     raised |-> o.raised, value |-> o.value, executions |-> o.executions]

\* A function of services/ is called; the store may reject its query.
FetchInvocationsCount ==
    /\ ret = NoCall
    /\ \E days \in Days, rejected \in BOOLEAN :
          \E o \in ReturnRunQuery({<<get_invocations_count(days)>>}, rejected) :
              ret' = Outcome("get_invocations_count", days, rejected, o)
    /\ UNCHANGED store

FetchInvocations ==
    /\ ret = NoCall
    /\ \E days \in Days, limit \in Limits, rejected \in BOOLEAN :
          \E o \in ReturnRunQuery(get_invocations(days, limit, 0), rejected) :
              ret' = Outcome("get_invocations", days, rejected, o)
    /\ UNCHANGED store

\* The growth functions are called; the store may reject the query, and the
\* query of the except branch as well.
FetchGrowthSummary ==
    /\ ret = NoCall
    /\ \E days \in Days, trend \in Trends, limit \in Limits,
          rejected \in BOOLEAN, again \in BOOLEAN :
          \E o \in TryRunQuery(_get_growth_summary(<<>>, days, trend, limit, 0),
                               rejected, again) :
              ret' = Outcome("_get_growth_summary", days, rejected, o)
    /\ UNCHANGED store

FetchGrowthCount ==
    /\ ret = NoCall
    /\ \E days \in Days, trend \in Trends, rejected \in BOOLEAN :
          \E o \in ZeroOnFailure(_get_growth_count(<<>>, days, trend), rejected) :
              ret' = Outcome("_get_growth_count", days, rejected, o)
    /\ UNCHANGED store

FetchModelTrend ==
    /\ ret = NoCall
    /\ \E model_name \in ModelNames, days \in Days,
          rejected \in BOOLEAN, again \in BOOLEAN :
          \E o \in _get_model_trend(model_name, days, rejected, again) :
              ret' = Outcome("_get_model_trend", days, rejected, o)
    /\ UNCHANGED store

InitFetch == InitAlerts

NextFetch ==
    \/ PageRows < MaxFetchRows /\ AppendRowCount(MaxFetchRows)
    \/ AppendInvocation(MaxFetchRows)
    \/ Tick
    \/ FetchInvocationsCount
    \/ FetchInvocations
    \/ FetchGrowthSummary
    \/ FetchGrowthCount
    \/ FetchModelTrend
    \/ Rerun

SpecFetch == InitFetch /\ [][NextFetch]_vars

---------------------------------------------------------------------------
(* Claims on rejected fetches (SpecFetch) *)

Fetched == ret.fn # "none"

\* C22 as stated: a fetch the store rejects reaches the caller as a failure,
\* after one execution, whichever function was called.
C22_FailureSurfaces ==
    (Fetched /\ ret.rejected) => (ret.raised /\ ret.executions = 1)

\* C22 (amended): a rejected fetch surfaces after one execution from the
\* functions of services/; _get_growth_count returns 0 for it;
\* _get_growth_summary and _get_model_trend run a second, empty query and
\* return its empty frame, and raise only if the store rejects that as well.
\* A fetch that is not rejected never raises and runs once.
C22_FailureSurfacesOutsideGrowth ==
    Fetched =>
        /\ ~ret.rejected => (~ret.raised /\ ret.executions = 1)
        /\ (ret.rejected /\ ret.fn \in {"get_invocations_count", "get_invocations"}) =>
              (ret.raised /\ ret.executions = 1)
        /\ (ret.rejected /\ ret.fn = "_get_growth_count") =>
              (~ret.raised /\ ret.value = 0 /\ ret.executions = 1)
        /\ (ret.rejected /\ ret.fn \in {"_get_growth_summary", "_get_model_trend"}) =>
              (ret.executions = 2 /\ (~ret.raised => ret.value = <<>>))

\* C22 witness: the log holds an observation in the window, the store
\* rejects the growth query, and the caller gets an empty frame or a zero.
C22_Witness ==
    /\ Fetched
    /\ ret.rejected
    /\ ~ret.raised
    /\ ret.fn \in {"_get_growth_summary", "_get_growth_count"}
    /\ \E i \in DOMAIN row_count_log : InWindow(row_count_log[i].run_started_at, ret.days)

---------------------------------------------------------------------------
(* services/metrics_service.py, services/alerts_service.py: KPIs and counts *)

\* (SELECT COUNT(*) FROM ... WHERE rn = 1 AND status IN ('fail', 'error'))
FailedCount(table, f) ==
    Cardinality({k \in DOMAIN f : IsFailure(table[f[k]].status)})

\* LatestAvgExecutionTime with 0 in the place of the NULL of an empty AVG.
LatestAvgExecutionTimeZero(f) ==
    LET timed == {f[k] : k \in {x \in DOMAIN f :
                                   dbt_run_results[f[x]].execution_time # NULL}}
    IN  IF timed = {} THEN <<0, 1>>
        ELSE <<SumExecutionTime(timed), Cardinality(timed)>>

\* (SELECT AVG(execution_time) FROM model_ranked WHERE rn = 1)
LatestAvgExecutionTime(f) ==
    LET timed == {f[k] : k \in {x \in DOMAIN f :
                                   dbt_run_results[f[x]].execution_time # NULL}}
    IN  IF timed = {} THEN NULL
        ELSE <<SumExecutionTime(timed), Cardinality(timed)>>

\* last_run: MAX(generated_at) over the runs of the window, of any resource type.
LastRunTime(days) ==
    LET S == {dbt_run_results[i].generated_at :
                 i \in {j \in DOMAIN dbt_run_results :
                           InWindow(dbt_run_results[j].generated_at, days)}}
    IN  IF S = {} THEN NULL ELSE <<CHOOSE x \in S : \A y \in S : y <= x>>

\* The one-row frame of get_dashboard_kpis, for each way the rankings can
\* come out.
get_dashboard_kpis(days) ==
    {<<[failed_tests |-> FailedCount(elementary_test_results, ft),
        total_tests_run |-> Cardinality(DOMAIN ft),
        failed_models |-> FailedCount(dbt_run_results, fm),
        total_models_run |-> Cardinality(DOMAIN fm),
        avg_execution_time |-> LatestAvgExecutionTime(fm),
        last_run_time |-> LastRunTime(days)]>> :
        ft \in TestRankOne(days, <<>>), fm \in ModelRankOne(days, <<>>)}

\* The one-row frame of get_alert_counts.
get_alert_counts(days) ==
    {<<[failed_tests |-> FailedCount(elementary_test_results, ft),
        failed_models |-> FailedCount(dbt_run_results, fm)]>> :
        ft \in TestRankOne(days, <<>>), fm \in ModelRankOne(days, <<>>)}

CallDashboardKpis ==
    /\ ret = NoCall
    /\ \E days \in Days :
          \E df \in get_dashboard_kpis(days) :
              ret' = [fn |-> "get_dashboard_kpis", days |-> days, df |-> df]
    /\ UNCHANGED store

CallAlertCounts ==
    /\ ret = NoCall
    /\ \E days \in Days :
          \E df \in get_alert_counts(days) :
              ret' = [fn |-> "get_alert_counts", days |-> days, df |-> df]
    /\ UNCHANGED store

---------------------------------------------------------------------------
(* Every component over a window that may hold no record *)

\* Records age out of the windows as the clock advances.  The clock counts
\* days, and half days where the daily trend queries read it.
InitEmpty == InitAlerts

NextEmpty ==
    \/ PageRows < MaxEmptyRows /\ AppendTestResult(MaxEmptyRows)
    \/ AppendModelRun(MaxEmptyRows)
    \/ PageRows < MaxEmptyRows /\ AppendRowCount(MaxEmptyRows)
    \/ AppendInvocation(MaxEmptyRows)
    \/ Tick
    \/ CallCurrentTestFailures
    \/ CallCurrentModelFailures
    \/ CallTopFailures
    \/ CallTestsSummary
    \/ CallFlakyTests
    \/ CallModelsSummary(Limits, {0})
    \/ CallGrowthSummary
    \/ CallModelExecutionTrend
    \/ CallModelTimeTrend
    \/ CallDashboardKpis
    \/ CallAlertCounts
    \/ RenderWaterfall
    \/ Rerun

SpecEmpty == InitEmpty /\ [][NextEmpty]_vars

---------------------------------------------------------------------------
(* Claims on empty input (SpecEmpty) *)

NoTestResults(days) ==
    \A i \in DOMAIN elementary_test_results :
        ~InWindow(elementary_test_results[i].detected_at, days)

NoRunResults(days) ==
    \A i \in DOMAIN dbt_run_results : ~InWindow(dbt_run_results[i].generated_at, days)

NoRowCounts(days) ==
    \A i \in DOMAIN row_count_log : ~InWindow(row_count_log[i].run_started_at, days)

NoTrendRuns(days) ==
    \A i \in DOMAIN dbt_run_results :
        dbt_run_results[i].generated_at < now - days * TicksPerDay

NoInvocationRuns(invocation_id) ==
    \A i \in DOMAIN dbt_run_results : dbt_run_results[i].invocation_id # invocation_id

\* The call read a window that holds no record of the table it reads.
EmptyInput ==
    CASE ret.fn \in {"get_current_test_failures", "get_tests_summary", "get_flaky_tests"} ->
             NoTestResults(ret.days)
      [] ret.fn \in {"get_current_model_failures", "get_models_summary"} ->
             NoRunResults(ret.days)
      [] ret.fn \in {"get_top_failures", "get_dashboard_kpis", "get_alert_counts"} ->
             NoTestResults(ret.days) /\ NoRunResults(ret.days)
      [] ret.fn = "_get_growth_summary" -> NoRowCounts(ret.days)
      [] ret.fn \in {"get_model_execution_trend", "_get_model_time_trend"} ->
             NoTrendRuns(ret.days)
      [] ret.fn = "_render_waterfall_chart" -> NoInvocationRuns(ret.invocation_id)
      [] OTHER -> FALSE

\* What the counts, the KPIs and the waterfall show for an empty input.
EmptyCounts ==
    /\ ret.fn = "get_alert_counts" =>
          ret.df = <<[failed_tests |-> 0, failed_models |-> 0]>>
    /\ ret.fn = "get_dashboard_kpis" =>
          ret.df = <<[failed_tests |-> 0, total_tests_run |-> 0, failed_models |-> 0,
                      total_models_run |-> 0, avg_execution_time |-> NULL,
                      last_run_time |-> NULL]>>
    /\ ret.fn = "_render_waterfall_chart" =>
          (ret.info = "No model timing data available" /\ ret.timing_df = <<>>)

Lists ==
    {"get_current_test_failures", "get_current_model_failures", "get_top_failures",
     "get_tests_summary", "get_flaky_tests", "get_models_summary",
     "_get_growth_summary", "get_model_execution_trend", "_get_model_time_trend"}

\* C23 as stated: on an empty input every list and summary is empty, the
\* counts are 0 with a null average, and the waterfall reports no timing data.
C23_EmptyInputEmptyResult ==
    EmptyInput =>
        /\ ret.fn \in Lists => ret.df = <<>>
        /\ EmptyCounts

\* C23 (amended): as stated, except that get_models_summary with show_all
\* lists the catalog's models that pass the search filter, each with status
\* no_runs, no last run, a null average, run_count 0 and is_slow false.
C23_EmptyInputEmptyOrCatalog ==
    EmptyInput =>
        /\ (ret.fn \in Lists /\ ~(ret.fn = "get_models_summary" /\ ret.show_all)) =>
              ret.df = <<>>
        /\ (ret.fn = "get_models_summary" /\ ret.show_all) =>
              /\ Len(ret.df) =
                   Min(ret.limit,
                       Cardinality({m \in dbt_models : SearchFilter(m, ret.search)}))
              /\ \A k \in DOMAIN ret.df :
                    /\ ret.df[k].unique_id \in dbt_models
                    /\ SearchFilter(ret.df[k].unique_id, ret.search)
                    /\ ret.df[k].latest_status = "no_runs"
                    /\ ret.df[k].last_run = NULL
                    /\ ret.df[k].avg_execution_time = NULL
                    /\ ret.df[k].run_count = 0
                    /\ ~ret.df[k].is_slow
        /\ EmptyCounts

\* C23 witness: records exist but all have aged out of the window, and the
\* KPIs are zero with a null average.
C23_Witness ==
    /\ ret.fn = "get_dashboard_kpis"
    /\ EmptyInput
    /\ dbt_run_results # <<>>
    /\ elementary_test_results # <<>>
    /\ ret.df[1].total_models_run = 0
    /\ ret.df[1].avg_execution_time = NULL

---------------------------------------------------------------------------
(* database.py: run_query under st.cache_data(ttl=CACHE_TTL) *)

\* config.py: seconds a cached result is served.
CACHE_TTL == 300

\* An entry that never expires.
FreshForever(entry) == TRUE

\* st.cache_data serves an entry younger than ttl.
Fresh(entry) == entry.age < CACHE_TTL

\* run_query(query): the cached frame of the query text if one is fresh,
\* otherwise the query is executed and its frame cached.  The text of a
\* query is fixed by the function and its parameters.
run_query(fn, days, results) ==
    LET query == <<fn, days>>
    IN  IF query \in DOMAIN cache /\ Fresh(cache[query])
        THEN /\ ret' = [fn |-> fn, days |-> days, df |-> cache[query].value]
             /\ cache' = cache
        ELSE \E df \in results :
                /\ ret' = [fn |-> fn, days |-> days, df |-> df]
                /\ cache' = (query :> [value |-> df, age |-> 0]) @@ cache

\* The frames an execution of the function's query returns.
Executed(fn, days) ==
    IF fn = "get_invocations_count"
    THEN {<<[total |-> get_invocations_count(days)]>>}
    ELSE get_current_test_failures(days, <<>>)

CachedInvocationsCount ==
    /\ ret = NoCall
    /\ \E days \in Days :
          run_query("get_invocations_count", days,
                    Executed("get_invocations_count", days))
    /\ UNCHANGED <<tables, ui>>

CachedCurrentTestFailures ==
    /\ ret = NoCall
    /\ \E days \in Days :
          run_query("get_current_test_failures", days,
                    Executed("get_current_test_failures", days))
    /\ UNCHANGED <<tables, ui>>

\* Half a ttl passes.
Wait ==
    /\ ret = NoCall
    /\ \E query \in DOMAIN cache : Fresh(cache[query])
    /\ cache' = [query \in DOMAIN cache |->
                    [cache[query] EXCEPT !.age = Min(CACHE_TTL, @ + CACHE_TTL \div 2)]]
    /\ UNCHANGED <<tables, ui, ret>>

\* A day passes, and every ttl with it.
NextDay ==
    /\ ret = NoCall
    /\ now < MaxNow
    /\ now' = now + 1
    /\ cache' = [query \in DOMAIN cache |-> [cache[query] EXCEPT !.age = CACHE_TTL]]
    /\ UNCHANGED <<dbt_models, dbt_run_results, elementary_test_results,
                   row_count_log, dbt_invocations, ui, ret>>

InitCache == InitAlerts

NextCache ==
    \/ PageRows < MaxCacheRows /\ AppendTestResult(MaxCacheRows)
    \/ AppendInvocation(MaxCacheRows)
    \/ Wait
    \/ NextDay
    \/ CachedInvocationsCount
    \/ CachedCurrentTestFailures
    \/ Rerun

SpecCache == InitCache /\ [][NextCache]_vars

---------------------------------------------------------------------------
(* Claims on recomputation (SpecCache) *)

Called == ret.fn # "none"

\* C24 as stated: what a call returns is computed from the records in the
\* store when the call is made, so a record appended before the call shows
\* in it.
C24_RecomputedOnEachCall ==
    Called => ret.df \in Executed(ret.fn, ret.days)

\* C24 (amended): a call returns the frame cached for its query when that
\* frame is younger than CACHE_TTL seconds, whatever was appended since;
\* otherwise it is computed from the records in the store when the call is made.
C24_RecomputedAfterTtl ==
    [][(ret = NoCall /\ ret' # NoCall) =>
          LET query == <<ret'.fn, ret'.days>>
          IN  IF query \in DOMAIN cache /\ cache[query].age < CACHE_TTL
              THEN ret'.df = cache[query].value
              ELSE ret'.df \in Executed(ret'.fn, ret'.days)]_vars

\* C24 witness: an invocation was appended after the counts were cached; the
\* ttl has passed, the call for one window returns the new count, and the
\* entry of the other window still holds the old one.
C24_Witness ==
    /\ ret.fn = "get_invocations_count"
    /\ ret.df[1].total = 2
    /\ cache[<<ret.fn, ret.days>>] = [value |-> ret.df, age |-> 0]
    /\ \E query \in DOMAIN cache :
          /\ query[1] = "get_invocations_count"
          /\ cache[query].age = CACHE_TTL
          /\ cache[query].value[1].total = 1
          /\ get_invocations_count(query[2]) = 2

---------------------------------------------------------------------------
(* Failing and slow models over runs that may be skipped *)

InitSkipped == InitSlow

NextSkipped ==
    \/ AppendRunResult(MaxSkipRows, {"fail", "skipped"}, {NULL, <<20>>, <<100>>},
                       {0, now})
    \/ CallCurrentModelFailures
    \/ CallModelsSummary({2}, {0})
    \/ Rerun

SpecSkipped == InitSkipped /\ [][NextSkipped]_vars

---------------------------------------------------------------------------
(* Claims on skipped runs (SpecSkipped) *)

\* The sets of models get_current_model_failures can report.
PossiblyFailing(days) ==
    {{df[k].unique_id : k \in DOMAIN df} : df \in get_current_model_failures(days, <<>>)}

\* The step appends a skipped run of a model.
SkippedRunAppended ==
    /\ Len(dbt_run_results') = Len(dbt_run_results) + 1
    /\ dbt_run_results'[Len(dbt_run_results')].status = "skipped"
    /\ dbt_run_results'[Len(dbt_run_results')].unique_id \in ModelIds

\* The appended run is in the window and later than every run of its model there.
AppendedLatest(days) ==
    LET r == dbt_run_results'[Len(dbt_run_results')]
    IN  /\ InWindow(r.generated_at, days)
        /\ \A i \in ModelSlice(days, <<>>) :
              dbt_run_results[i].unique_id = r.unique_id =>
                  dbt_run_results[i].generated_at < r.generated_at

\* A run of the appended run's model, at least as late, is in the window, or
\* the appended run is not.
AppendedNotLatest(days) ==
    LET r == dbt_run_results'[Len(dbt_run_results')]
    IN  \/ ~InWindow(r.generated_at, days)
        \/ \E i \in ModelSlice(days, <<>>) :
              /\ dbt_run_results[i].unique_id = r.unique_id
              /\ dbt_run_results[i].generated_at > r.generated_at

\* C25 as stated: appending a skipped run changes neither the models
\* reported as currently failing nor any model's average or slow flag.
C25_SkippedRunsIgnored ==
    [][SkippedRunAppended =>
          \A d \in Days :
              /\ PossiblyFailing(d)' = PossiblyFailing(d)
              /\ \A m \in ModelIds :
                    /\ Average(m, d)' = Average(m, d)
                    /\ Slow(m, d)' = Slow(m, d)]_vars

\* C25 (amended): a skipped run counts like any run that did not fail.  When
\* it is its model's latest in the window the model is no longer reported as
\* failing; when a later run of the model is in the window, or the skipped
\* run is outside it, the failing models are unchanged.  Its execution time,
\* if it has one and the run is in the window, enters the model's average;
\* otherwise no average and no slow flag changes.
C25_SkippedRunsCountAsRuns ==
    [][SkippedRunAppended =>
          LET r == dbt_run_results'[Len(dbt_run_results')]
          IN  \A d \in Days :
                  /\ AppendedLatest(d) =>
                        \A F \in PossiblyFailing(d)' : r.unique_id \notin F
                  /\ AppendedNotLatest(d) => PossiblyFailing(d)' = PossiblyFailing(d)
                  /\ (r.execution_time = NULL \/ ~InWindow(r.generated_at, d)) =>
                        \A m \in ModelIds :
                            /\ Average(m, d)' = Average(m, d)
                            /\ Slow(m, d)' = Slow(m, d)
                  /\ (r.execution_time # NULL /\ InWindow(r.generated_at, d)) =>
                        \A m \in ModelIds :
                            m = r.unique_id =>
                                Average(m, d)' =
                                    IF Average(m, d) = NULL
                                    THEN <<r.execution_time[1], 1>>
                                    ELSE <<Average(m, d)[1] + r.execution_time[1],
                                           Average(m, d)[2] + 1>>]_vars

\* C25 witness: a model's run failed, a later run of it was skipped, and the
\* list of current failures does not hold the model.
C25_Witness ==
    /\ ret.fn = "get_current_model_failures"
    /\ ret.search = <<>>
    /\ ret.df = <<>>
    /\ \E i, j \in DOMAIN dbt_run_results :
          /\ dbt_run_results[i].unique_id \in ModelIds
          /\ dbt_run_results[j].unique_id = dbt_run_results[i].unique_id
          /\ dbt_run_results[i].status = "fail"
          /\ dbt_run_results[j].status = "skipped"
          /\ InWindow(dbt_run_results[i].generated_at, ret.days)
          /\ dbt_run_results[i].generated_at < dbt_run_results[j].generated_at

----------------------------------------------------------------------------
(* Claims on the default mode of the model summary (SpecModels) *)

\* The model's average over its timed records exceeds the p90 of the
\* per-model averages of the window.
AboveP90(m, days) ==
    /\ MeanOf(Timed(m, days)) # NULL
    /\ TimedP90(days) # NULL
    /\ FracGt(MeanOf(Timed(m, days)), TimedP90(days))

\* The models that may be listed: some newest record is a failure, or slow.
MayHaveIssue(days) ==
    {m \in ModelIds : \/ \E o \in Newest(m, days) : Failing(o.status)
                      \/ AboveP90(m, days)}

\* The models that must be listed: every newest record is a failure, or slow.
MustHaveIssue(days) ==
    {m \in ModelIds : \/ /\ Newest(m, days) # {}
                         /\ \A o \in Newest(m, days) : Failing(o.status)
                      \/ AboveP90(m, days)}

----------------------------------------------------------------------------
(* The script: one run of main per interaction (SpecSession) *)

\* Pages a list is growing to in the model.
MaxListPages == 3

Max(a, b) == IF a >= b THEN a ELSE b

\* PAGES
PageNames == {"Home", "Alerts", "Models", "Tests", "Runs", "Growth", "Performance"}

DetailViews == {"model_detail", "test_detail", "invocation_detail"}

\* The list pages that page their rows, with the session key of the index.
PageKey(page_name) ==
    CASE page_name = "Runs" -> "runs_page"
      [] page_name = "Tests" -> "tests_page"
      [] page_name = "Growth" -> "growth_page"
      [] OTHER -> "none"

\* page_size = 20
runs_page_size == 20

\* Imported by tests.py from config, which does not define it; DEFAULT_PAGE_SIZE
\* stands in for it.
TESTS_PAGE_SIZE == 50

PageSize(page_name) ==
    CASE page_name = "Runs" -> runs_page_size
      [] page_name = "Tests" -> TESTS_PAGE_SIZE
      [] page_name = "Growth" -> page_size
      [] OTHER -> 1

\* The View buttons a list page renders for its rows.
ViewButtons(page_name) ==
    CASE page_name = "Home" -> {"view_test", "view_model", "view_invocation"}
      [] page_name = "Alerts" -> {"view_test", "view_model"}
      [] page_name = "Models" -> {"view_model"}
      [] page_name = "Tests" -> {"view_test", "view_model"}
      [] page_name = "Runs" -> {"view_invocation"}
      [] page_name = "Growth" -> {"view_model"}
      [] OTHER -> {}

\* st.session_state[key] = value
Put(s, key, value) == (key :> value) @@ s

\* st.session_state.get(key) is truthy
Truthy(s, key) == key \in DOMAIN s /\ s[key] # None

\* What one script run hands back: the session state, the page sent to the
\* browser, and whether it ended in st.rerun().
Sent(s, view, buttons, p, failed) ==
    [s |-> s,
     b |-> [view |-> view, rerun |-> FALSE, buttons |-> buttons, failed |-> failed,
            current_page |-> p.current_page, total_pages |-> p.total_pages,
            page_size |-> p.page_size, offset |-> p.offset]]

StRerun(s, view, p) ==
    [s |-> s,
     b |-> [view |-> view, rerun |-> TRUE, buttons |-> {}, failed |-> FALSE,
            current_page |-> p.current_page, total_pages |-> p.total_pages,
            page_size |-> p.page_size, offset |-> p.offset]]

\* A page that pages nothing.
NoPaging(s) == [s |-> s, current_page |-> 0, total_pages |-> 1, page_size |-> 1, offset |-> 0]

\* total_pages = max(1, (total + page_size - 1) // page_size); the index is
\* created at 0, reset to 0 when it is >= total_pages; offset = index * page_size.
Paginate(s, key, size, total) ==
    LET total_pages == Max(1, (total + size - 1) \div size)
        s1 == IF key \in DOMAIN s THEN s ELSE Put(s, key, 0)
        reset == s1[key] >= total_pages
        current_page == IF reset THEN 0 ELSE s1[key]
    IN  [s |-> IF reset THEN Put(s1, key, 0) ELSE s1,
         current_page |-> current_page, total_pages |-> total_pages,
         page_size |-> size, offset |-> current_page * size]

\* st.button(..., disabled=...) in a run that carries the click ev: the button
\* may have been enabled on the page the click was made on and be rendered
\* disabled by this run; stale says whether the click is then still reported.
Clicked(ev, kind, disabled, stale) == ev.kind = kind /\ (~disabled \/ stale)

\* The View buttons of the list pages.
list_view(s, ev) ==
    CASE ev.kind = "view_model" ->
            Put(Put(s, "selected_model", <<ev.arg>>), "selected_test", None)
      [] ev.kind = "view_test" ->
            Put(Put(s, "selected_test", <<ev.arg>>), "selected_model", None)
      [] ev.kind = "view_invocation" ->
            Put(s, "selected_invocation", <<ev.arg>>)

\* The smallest total that makes n pages of the given size.
Total(n, size) == IF n = 0 THEN 0 ELSE (n - 1) * size + 1

\* The body of a list page: the count, the page arithmetic, the fetch, the
\* Prev and Next buttons, the rows with their View buttons.
list_render(page_name, s, ev, in) ==
    LET paged == PageKey(page_name) # "none"
        p == IF paged
             THEN Paginate(s, PageKey(page_name), PageSize(page_name),
                           Total(in.pages, PageSize(page_name)))
             ELSE NoPaging(s)
        \* OFFSET -n is rejected by the engine; _get_growth_summary alone
        \* catches the error and returns an empty frame.
        raises == p.offset < 0 /\ page_name # "Growth"
        empty == paged /\ (in.empty \/ p.offset < 0)
        \* tests.py renders the flaky and coverage tabs whatever the first tab did.
        rows == ~empty \/ page_name = "Tests"
        paging == ~empty /\ p.total_pages > 1
        first == p.current_page = 0
        last == p.current_page >= p.total_pages - 1
    IN  IF raises THEN Sent(p.s, page_name, {"sidebar"}, p, TRUE)
        ELSE IF paging /\ Clicked(ev, "prev", first, in.stale)
        THEN StRerun(Put(p.s, PageKey(page_name), p.current_page - 1), page_name, p)
        ELSE IF paging /\ Clicked(ev, "next", last, in.stale)
        THEN StRerun(Put(p.s, PageKey(page_name), p.current_page + 1), page_name, p)
        ELSE IF rows /\ ev.kind \in ViewButtons(page_name)
                     /\ (page_name = "Growth" => in.found)
        THEN StRerun(list_view(p.s, ev), page_name, p)
        ELSE Sent(p.s, page_name,
                  {"sidebar"} \cup (IF rows THEN ViewButtons(page_name) ELSE {})
                              \cup (IF paging /\ ~first THEN {"prev"} ELSE {})
                              \cup (IF paging /\ ~last THEN {"next"} ELSE {}),
                  p, FALSE)

\* invocation detail, View of a model with the selected_invocation kept.
invocation_view_keeping(s, ev) ==
    CASE ev.kind = "view_model" -> Put(s, "selected_model", <<ev.arg>>)
      [] ev.kind = "view_test" -> Put(s, "selected_test", <<ev.arg>>)

\* runs.py 261-264 and 314-317
invocation_view(s, ev) ==
    CASE ev.kind = "view_model" ->
            Put(Put(s, "selected_model", <<ev.arg>>), "selected_invocation", None)
      [] ev.kind = "view_test" ->
            Put(Put(s, "selected_test", <<ev.arg>>), "selected_invocation", None)

\* Back of the model detail page that also names the list to return to.
model_detail_back_to_models(s) ==
    Put(Put(s, "selected_model", None), "nav_page", <<"Models">>)

\* model_detail.py 40-42
model_detail_back(s) == Put(s, "selected_model", None)

\* A detail page: Back first, then the details, and when they are found the
\* links to other detail pages.
detail_render(view, s, ev, in) ==
    IF ev.kind = "back"
    THEN StRerun(CASE view = "model_detail" -> model_detail_back(s)
                   [] view = "test_detail" -> Put(s, "selected_test", None)
                   [] view = "invocation_detail" -> Put(s, "selected_invocation", None),
                 view, NoPaging(s))
    ELSE IF ~in.found THEN Sent(s, view, {"back"}, NoPaging(s), FALSE)
    ELSE IF view = "model_detail" /\ ev.kind = "view_test"
    THEN StRerun(Put(Put(s, "selected_test", <<ev.arg>>), "selected_model", None),
                 view, NoPaging(s))
    ELSE IF view = "test_detail" /\ ev.kind = "view_model"
    THEN StRerun(Put(Put(s, "selected_model", <<ev.arg>>), "selected_test", None),
                 view, NoPaging(s))
    ELSE IF view = "invocation_detail" /\ ev.kind \in {"view_model", "view_test"}
    THEN StRerun(invocation_view(s, ev), view, NoPaging(s))
    ELSE Sent(s, view,
              {"back"} \cup (CASE view = "model_detail" -> {"view_test"}
                               [] view = "test_detail" -> {"view_model"}
                               [] view = "invocation_detail" -> {"view_model", "view_test"}),
              NoPaging(s), FALSE)

\* main: the defaults, nav_page, the dispatch on the selections, the sidebar.
main(s, ev, in) ==
    LET s1 == s @@ [selected_model |-> None, selected_test |-> None,
                    selected_invocation |-> None, current_page |-> "Home"]
        s2 == IF Truthy(s1, "nav_page")
              THEN Put(Put(s1, "current_page", s1.nav_page[1]), "nav_page", None)
              ELSE s1
        page_name == IF ev.kind = "sidebar" THEN ev.arg ELSE s2.current_page
        s3 == IF page_name # s2.current_page
              THEN Put(s2, "current_page", page_name) ELSE s2
    IN  IF Truthy(s2, "selected_model") THEN detail_render("model_detail", s2, ev, in)
        ELSE IF Truthy(s2, "selected_test") THEN detail_render("test_detail", s2, ev, in)
        ELSE IF Truthy(s2, "selected_invocation")
        THEN detail_render("invocation_detail", s2, ev, in)
        ELSE list_render(page_name, s3, ev, in)

\* What a run reads besides the session: how many pages the total of the count
\* query makes, whether the fetch came back empty, whether the looked-up row
\* was found, and whether a click on a button that is now disabled is reported.
Inputs == [pages : 0 .. MaxListPages, empty : BOOLEAN, found : BOOLEAN, stale : BOOLEAN]

\* One script run, started by the interaction ev with the page in the browser.
Script(ev) ==
    /\ \E in \in Inputs :
          LET r == main(session_state, ev, in)
          IN  /\ session_state' = r.s
              /\ browser' = r.b
    /\ UNCHANGED <<tables, cache, ret>>

NoEvent == [kind |-> "none"]

\* The first run of a session.
Load == browser.view = "blank" /\ Script(NoEvent)

\* The run that st.rerun() starts.
Rerender == browser.rerun /\ Script(NoEvent)

\* A filter or another widget without session state is changed.
ChangeFilter == browser.view # "blank" /\ ~browser.rerun /\ Script(NoEvent)

ClickSidebar ==
    /\ ~browser.rerun /\ "sidebar" \in browser.buttons
    /\ \E page_name \in PageNames : Script([kind |-> "sidebar", arg |-> page_name])

ClickViewModel ==
    /\ ~browser.rerun /\ "view_model" \in browser.buttons
    /\ \E id \in ModelIds : Script([kind |-> "view_model", arg |-> id])

ClickViewTest ==
    /\ ~browser.rerun /\ "view_test" \in browser.buttons
    /\ \E id \in TestIds : Script([kind |-> "view_test", arg |-> id])

ClickViewInvocation ==
    /\ ~browser.rerun /\ "view_invocation" \in browser.buttons
    /\ \E id \in InvocationIds : Script([kind |-> "view_invocation", arg |-> id])

ClickBack ==
    /\ ~browser.rerun /\ "back" \in browser.buttons
    /\ Script([kind |-> "back"])

ClickPrev ==
    /\ ~browser.rerun /\ "prev" \in browser.buttons
    /\ Script([kind |-> "prev"])

ClickNext ==
    /\ ~browser.rerun /\ "next" \in browser.buttons
    /\ Script([kind |-> "next"])

InitSession == InitAlerts

NextSession ==
    \/ Load
    \/ Rerender
    \/ ChangeFilter
    \/ ClickSidebar
    \/ ClickViewModel
    \/ ClickViewTest
    \/ ClickViewInvocation
    \/ ClickBack
    \/ ClickPrev
    \/ ClickNext

SpecSession == InitSession /\ [][NextSession]_vars

----------------------------------------------------------------------------
(* Claims on navigation and paging (SpecSession) *)

Selections == {"selected_model", "selected_test", "selected_invocation"}

\* C27: at the start of every script run at most one of selected_model,
\* selected_test and selected_invocation is set, so the dispatch of main,
\* which serves the first one set, hides no other selection.
C27_AtMostOneSelection ==
    Cardinality({key \in Selections : Truthy(session_state, key)}) <= 1

\* C27 witness: a test detail page opened from an invocation detail page (the
\* Runs list has no View button for tests): the invocation was cleared when
\* the test was selected.
C27_Witness ==
    /\ browser.view = "test_detail" /\ ~browser.rerun
    /\ session_state.current_page = "Runs"
    /\ Truthy(session_state, "selected_test")
    /\ ~Truthy(session_state, "selected_invocation")

\* C28: on the Runs, Tests and Growth pages the page index a run computes its
\* fetch offset from is in 0 .. total_pages - 1, so the offset is not negative
\* and below total_pages * page_size.
C28_PageIndexInRange ==
    browser.view \in {"Runs", "Tests", "Growth"} =>
        /\ browser.current_page \in 0 .. (browser.total_pages - 1)
        /\ browser.offset >= 0
        /\ browser.offset < browser.total_pages * browser.page_size

----------------------------------------------------------------------------
(* The summary counts next to the lists they head (SpecSummary) *)

MaxSummaryRows == 2

InitSummary == InitAlerts

NextSummary ==
    \/ AppendTestResult(MaxSummaryRows)
    \/ AppendRunResult(MaxSummaryRows, RunStatuses, {NULL}, 0 .. now)
    \/ Tick
    \/ CallAlertCounts
    \/ CallDashboardKpis
    \/ CallCurrentTestFailures
    \/ CallCurrentModelFailures
    \/ CallTopFailures
    \/ Rerun

SpecSummary == InitSummary /\ [][NextSummary]_vars

\* The counts of a frame agree with every frame the other count query and the
\* lists can return for the same window over the same records.
CountsAgree(row, days) ==
    /\ \A df \in get_alert_counts(days) \cup get_dashboard_kpis(days) :
          /\ df[1].failed_tests = row.failed_tests
          /\ df[1].failed_models = row.failed_models
    /\ \A df \in get_current_test_failures(days, <<>>) :
          Len(df) = row.failed_tests
    /\ \A df \in get_current_model_failures(days, <<>>) :
          Len(df) = row.failed_models
    /\ \A limit \in Limits \cup {MaxSummaryRows + 1} :
          \A df \in get_top_failures(limit, days) :
              Len(df) < limit => Len(df) = row.failed_tests + row.failed_models

\* C29: the failed_tests and failed_models that get_alert_counts and
\* get_dashboard_kpis return are equal to each other, to the number of rows of
\* get_current_test_failures and get_current_model_failures without search
\* filter, and in sum to the number of rows of get_top_failures when its limit
\* is not reached, for the same window over the same records.
C29_CountsAgreeWithLists ==
    ret.fn \in {"get_alert_counts", "get_dashboard_kpis"} =>
        CountsAgree(ret.df[1], ret.days)

\* No entity has two records in the window with the same timestamp.
Untied(days) ==
    \A id \in TestIds \cup ModelIds :
        \A o, q \in Observed(id, days) : o.ts = q.ts => o = q

\* The same, over records that never tie on the timestamp within an entity.
CountsAgreeWithListsUntied ==
    ( ret.fn \in {"get_alert_counts", "get_dashboard_kpis"} /\ Untied(ret.days) )
    => CountsAgree(ret.df[1], ret.days)

=============================================================================
